---------------------------- MODULE Spec2Model ----------------------------
(***************************************************************************)
(* A model of the YATE terminal text editor (src/src/editor.c, syntax.c,   *)
(* copy_buffer.c).  A byte is a one-character string ("a", "/", "\t"); the *)
(* control byte 0x01 is written SOH.  A state is observed where the        *)
(* program blocks in editor_read_key(): in the main loop or in a prompt.   *)
(***************************************************************************)
EXTENDS Integers, Sequences, FiniteSets, TLC

----------------------------------------------------------------------------
(* Highlight classes: enum editorHighlight, syntax.h *)

HIGHTLIGHT_NORMAL == 0

HIGHLIGHT_COMMENT == 1

HIGHLIGHT_MLCOMMENT == 2

HIGHLIGHT_KEYWORDS_FIRST_GROUP == 3

HIGHLIGHT_KEYWORDS_SECOND_GROUP == 4

HIGHLIGHT_KEYWORDS_THIRD_GROUP == 5

HIGHLIGHT_KEYWORDS_FOURTH_GROUP == 6

HIGHLIGHT_STRING == 7

HIGHLIGHT_NUMBER == 8

HIGHLIGHT_MATCH == 9

SYNTAX_HIGHLIGHT_NUMBERS == 1

SYNTAX_HIGHLIGHT_STRINGS == 2

QUIT_TIMES == 3

DEFAULT_TAB_STOP_SIZE == 4

\* A pointer is the empty tuple (the null pointer) or the one-tuple of what
\* it points to.
NULL == <<>>

Ptr(v) == <<v>>

Deref(p) == p[1]

\* the byte '\0' that ends every C string
NUL == "NUL"

\* the byte 0x01 (ctrl-a), the only byte equal to the integer value of `true`
SOH == "^A"

----------------------------------------------------------------------------
(* The syntax rule table, syntax.c *)

CFileExtensions ==
    << <<".", "c">>, <<".", "h">> >>

CKeywords ==
    << <<"s", "w", "i", "t", "c", "h">>, <<"i", "f">>, <<"w", "h", "i", "l", "e">>,
       <<"f", "o", "r">>, <<"b", "r", "e", "a", "k">>,
       <<"c", "o", "n", "t", "i", "n", "u", "e">>, <<"r", "e", "t", "u", "r", "n">>,
       <<"e", "l", "s", "e">>, <<"s", "t", "r", "u", "c", "t">>, <<"u", "n", "i", "o", "n">>,
       <<"t", "y", "p", "e", "d", "e", "f">>, <<"s", "t", "a", "t", "i", "c">>,
       <<"e", "n", "u", "m">>, <<"c", "a", "s", "e">>, <<"i", "n", "t", "|">>,
       <<"l", "o", "n", "g", "|">>, <<"d", "o", "u", "b", "l", "e", "|">>,
       <<"f", "l", "o", "a", "t", "|">>, <<"c", "h", "a", "r", "|">>,
       <<"u", "n", "s", "i", "g", "n", "e", "d", "|">>, <<"s", "i", "g", "n", "e", "d", "|">>,
       <<"v", "o", "i", "d", "|">> >>

CPPFileExtensions ==
    << <<".", "c", "p", "p">>, <<".", "h", "p", "p">>, <<".", "c", "c">>, <<".", "h", "h">> >>

CPPKeywords ==
    << <<"s", "w", "i", "t", "c", "h">>, <<"i", "f">>, <<"w", "h", "i", "l", "e">>,
       <<"f", "o", "r">>, <<"b", "r", "e", "a", "k">>,
       <<"c", "o", "n", "t", "i", "n", "u", "e">>, <<"r", "e", "t", "u", "r", "n">>,
       <<"e", "l", "s", "e">>, <<"s", "t", "r", "u", "c", "t">>, <<"u", "n", "i", "o", "n">>,
       <<"t", "y", "p", "e", "d", "e", "f">>, <<"s", "t", "a", "t", "i", "c">>,
       <<"e", "n", "u", "m">>, <<"c", "l", "a", "s", "s">>, <<"c", "a", "s", "e">>,
       <<"p", "r", "i", "v", "a", "t", "e">>,
       <<"p", "u", "b", "l", "i", "c", "i", "n", "t", "|">>, <<"l", "o", "n", "g", "|">>,
       <<"d", "o", "u", "b", "l", "e", "|">>, <<"f", "l", "o", "a", "t", "|">>,
       <<"c", "h", "a", "r", "|">>, <<"u", "n", "s", "i", "g", "n", "e", "d", "|">>,
       <<"s", "i", "g", "n", "e", "d", "|">>, <<"v", "o", "i", "d", "|">> >>

CelloxFileExtensions ==
    << <<".", "c", "l", "x">> >>

CelloxKeywords ==
    << <<"i", "f">>, <<"e", "l", "s", "e">>, <<"f", "o", "r">>, <<"w", "h", "i", "l", "e">>,
       <<"r", "e", "t", "u", "r", "n">>, <<"a", "n", "d">>, <<"o", "r">>,
       <<"n", "u", "l", "l">>, <<"t", "h", "i", "s">>, <<"s", "u", "p", "e", "r">>,
       <<"f", "a", "l", "s", "e">>, <<"t", "r", "u", "e">>, <<"f", "u", "n", "|">>,
       <<"c", "l", "a", "s", "s", "|">>, <<"v", "a", "r", "|">> >>

GoFileExtensions ==
    << <<".", "g", "o">> >>

GoKeywords ==
    << <<"i", "f">>, <<"f", "o", "r">>, <<"r", "a", "n", "g", "e">>,
       <<"w", "h", "i", "l", "e">>, <<"d", "e", "f", "e", "r">>,
       <<"s", "w", "i", "t", "c", "h">>, <<"c", "a", "s", "e">>, <<"e", "l", "s", "e">>,
       <<"f", "u", "n", "c">>, <<"p", "a", "c", "k", "a", "g", "e">>,
       <<"i", "m", "p", "o", "r", "t">>, <<"t", "y", "p", "e">>,
       <<"s", "t", "r", "u", "c", "t">>, <<"i", "m", "p", "o", "r", "t">>,
       <<"c", "o", "n", "s", "t">>, <<"v", "a", "r">>, <<"n", "i", "l", "|">>,
       <<"t", "r", "u", "e", "|">>, <<"f", "a", "l", "s", "e", "|">>,
       <<"e", "r", "r", "o", "r", "|">>, <<"e", "r", "r", "|">>, <<"i", "n", "t", "|">>,
       <<"i", "n", "t", "3", "2", "|">>, <<"i", "n", "t", "6", "4", "|">>,
       <<"u", "i", "n", "t", "|">>, <<"u", "i", "n", "t", "3", "2", "|">>,
       <<"u", "i", "n", "t", "6", "4", "|">>, <<"s", "t", "r", "i", "n", "g", "|">>,
       <<"b", "o", "o", "l", "|">> >>

LuaFileExtensions ==
    << <<".", "l", "u", "a">> >>

LuaKeywords ==
    << <<"a", "n", "d">>, <<"b", "r", "e", "a", "k">>, <<"d", "o">>, <<"e", "l", "s", "e">>,
       <<"e", "l", "s", "e", "i", "f">>, <<"e", "n", "d">>, <<"f", "a", "l", "s", "e">>,
       <<"f", "o", "r">>, <<"f", "u", "n", "c", "t", "i", "o", "n">>, <<"i", "f">>,
       <<"i", "n">>, <<"l", "o", "c", "a", "l", "|">>, <<"n", "i", "l">>, <<"n", "o", "t">>,
       <<"o", "r">>, <<"r", "e", "p", "e", "a", "t">>, <<"r", "e", "t", "u", "r", "n">>,
       <<"t", "h", "e", "n">>, <<"t", "r", "u", "e">>, <<"u", "n", "t", "i", "l">>,
       <<"w", "h", "i", "l", "e">> >>

PythonFileExtensions ==
    << <<".", "p", "y">> >>

PythonKeywords ==
    << <<"a", "n", "d">>, <<"a", "s">>, <<"a", "s", "s", "e", "r", "t">>,
       <<"b", "r", "e", "a", "k">>, <<"c", "l", "a", "s", "s">>,
       <<"c", "o", "n", "t", "i", "n", "u", "e">>, <<"d", "e", "f">>, <<"d", "e", "l">>,
       <<"e", "l", "i", "f">>, <<"e", "l", "s", "e">>, <<"e", "x", "c", "e", "p", "t">>,
       <<"e", "x", "e", "c">>, <<"f", "i", "n", "a", "l", "l", "y">>, <<"f", "o", "r">>,
       <<"f", "r", "o", "m">>, <<"g", "l", "o", "b", "a", "l">>, <<"i", "f">>,
       <<"i", "m", "p", "o", "r", "t">>, <<"i", "n">>, <<"i", "s">>,
       <<"l", "a", "m", "b", "d", "a">>, <<"n", "o", "t">>, <<"o", "r">>,
       <<"p", "a", "s", "s">>, <<"p", "r", "i", "n", "t">>, <<"r", "a", "i", "s", "e">>,
       <<"r", "e", "t", "u", "r", "n">>, <<"t", "r", "y">>, <<"w", "h", "i", "l", "e">>,
       <<"w", "i", "t", "h">>, <<"y", "i", "e", "l", "d">>,
       <<"b", "u", "f", "f", "e", "r", "|">>,
       <<"b", "y", "t", "e", "a", "r", "r", "a", "y", "|">>,
       <<"c", "o", "m", "p", "l", "e", "x", "|">>, <<"F", "a", "l", "s", "e", "|">>,
       <<"f", "l", "o", "a", "t", "|">>, <<"f", "r", "o", "z", "e", "n", "s", "e", "t", "|">>,
       <<"i", "n", "t", "|">>, <<"l", "i", "s", "t", "|">>, <<"l", "o", "n", "g", "|">>,
       <<"N", "o", "n", "e", "|">>, <<"s", "e", "t", "|">>, <<"s", "t", "r", "|">>,
       <<"t", "u", "p", "l", "e", "|">>, <<"T", "r", "u", "e", "|">>,
       <<"t", "y", "p", "e", "|">>, <<"u", "n", "i", "c", "o", "d", "e", "|">>,
       <<"x", "r", "a", "n", "g", "e", "|">> >>

HighLightDataBase ==
    << [filetype |-> "C", filematch |-> CFileExtensions, keywords |-> CKeywords,
        singleline_comment_start |-> <<"/", "/">>,
        multiline_comment_start |-> <<"/", "*">>, multiline_comment_end |-> <<"*", "/">>,
        flags |-> {SYNTAX_HIGHLIGHT_NUMBERS, SYNTAX_HIGHLIGHT_STRINGS}],
       [filetype |-> "C++", filematch |-> CPPFileExtensions, keywords |-> CPPKeywords,
        singleline_comment_start |-> <<"/", "/">>,
        multiline_comment_start |-> <<"/", "*">>, multiline_comment_end |-> <<"*", "/">>,
        flags |-> {SYNTAX_HIGHLIGHT_NUMBERS, SYNTAX_HIGHLIGHT_STRINGS}],
       [filetype |-> "Cellox", filematch |-> CelloxFileExtensions, keywords |-> CelloxKeywords,
        singleline_comment_start |-> <<"/", "/">>,
        multiline_comment_start |-> <<"/", "*">>, multiline_comment_end |-> <<"*", "/">>,
        flags |-> {SYNTAX_HIGHLIGHT_NUMBERS, SYNTAX_HIGHLIGHT_STRINGS}],
       [filetype |-> "Go", filematch |-> GoFileExtensions, keywords |-> GoKeywords,
        singleline_comment_start |-> <<"#">>,
        multiline_comment_start |-> <<>>, multiline_comment_end |-> <<>>,
        flags |-> {SYNTAX_HIGHLIGHT_NUMBERS, SYNTAX_HIGHLIGHT_STRINGS}],
       [filetype |-> "Lua", filematch |-> LuaFileExtensions, keywords |-> LuaKeywords,
        singleline_comment_start |-> <<"-", "-">>,
        multiline_comment_start |-> <<"-", "-", "[", "[">>,
        multiline_comment_end |-> <<"-", "-", "]", "]">>,
        flags |-> {SYNTAX_HIGHLIGHT_NUMBERS, SYNTAX_HIGHLIGHT_STRINGS}],
       [filetype |-> "Python", filematch |-> PythonFileExtensions, keywords |-> PythonKeywords,
        singleline_comment_start |-> <<"/", "/">>,
        multiline_comment_start |-> <<>>, multiline_comment_end |-> <<>>,
        flags |-> {SYNTAX_HIGHLIGHT_NUMBERS, SYNTAX_HIGHLIGHT_STRINGS}] >>

syntax_get_language_count == Len(HighLightDataBase)

----------------------------------------------------------------------------
(* C library helpers as the editor uses them *)

isspace(c) == c \in {" ", "\t", "\n", "\r", "\f"}

isdigit(c) == c \in {"0", "1", "2", "3", "4", "5", "6", "7", "8", "9"}

\* s[i] of the NUL-terminated string held in the sequence s, i counted from 0
CharAt(s, i) == IF i < Len(s) THEN s[i + 1] ELSE NUL

\* strncmp(&s[i], pat, Len(pat)) == 0: s is NUL-terminated, pat holds no NUL
StrNCmpEq(s, i, pat) ==
    /\ i + Len(pat) <= Len(s)
    /\ \A k \in 1..Len(pat) : s[i + k] = pat[k]

\* an array given element by element, as the sequence of its elements
Array(f) == SubSeq(f, 1, Len(f))

\* s with the n entries from index i (counted from 0) set to v: memset(&s[i], v, n)
MemSet(s, i, n, v) ==
    Array([k \in 1..Len(s) |-> IF k > i /\ k <= i + n THEN v ELSE s[k]])

\* strstr(hay, needle) - hay: a pointer to the offset of the first occurrence
\* of needle in hay, NULL when there is none
StrStr(hay, needle) ==
    LET hits == {i \in 0..Len(hay) : StrNCmpEq(hay, i, needle)}
    IN  IF hits = {} THEN NULL ELSE Ptr(CHOOSE i \in hits : \A j \in hits : i <= j)

editor_is_separator(c) ==
    \/ isspace(c)
    \/ c = NUL
    \/ c \in {",", ".", "(", ")", "+", "-", "/", "*", "=", "~", "%", "<", ">", "[", "]", ";"}

----------------------------------------------------------------------------
(* The highlighter, editor_update_syntax *)

\* the integer value of c equals the integer value of the bool b
CharEqualsBool(c, b) == IF b THEN c = SOH ELSE c = NUL

\* every table entry taken for one of the first group
KeywordGroup_AlwaysFirst(kw) == HIGHLIGHT_KEYWORDS_FIRST_GROUP

\* the group a keyword table entry belongs to, from its last byte
KeywordGroup(kw) ==
    IF kw[Len(kw)] = "|" THEN HIGHLIGHT_KEYWORDS_SECOND_GROUP
    ELSE IF kw[Len(kw)] = "&" THEN HIGHLIGHT_KEYWORDS_THIRD_GROUP
    ELSE IF kw[Len(kw)] = "~" THEN HIGHLIGHT_KEYWORDS_FOURTH_GROUP
    ELSE HIGHLIGHT_KEYWORDS_FIRST_GROUP

\* the length of a keyword table entry without its group suffix
KeywordLength(kw) ==
    IF kw[Len(kw)] \in {"|", "&", "~"} THEN Len(kw) - 1 ELSE Len(kw)

\* a match that does not look at the byte behind the word
KeywordMatches_AnyByteBehind(render, i, kw) ==
    StrNCmpEq(render, i, SubSeq(kw, 1, KeywordLength(kw)))

\* the keyword loop: whether table entry j matches at offset i
KeywordMatches(render, i, kw) ==
    LET word == SubSeq(kw, 1, KeywordLength(kw))
    IN  /\ StrNCmpEq(render, i, word)
        /\ editor_is_separator(CharAt(render, i + Len(word)))

\* the index of the first table entry matching at offset i, 0 when none does
FirstKeyword(render, i, keywords) ==
    LET hits == {j \in 1..Len(keywords) : KeywordMatches(render, i, keywords[j])}
    IN  IF hits = {} THEN 0 ELSE CHOOSE j \in hits : \A k \in hits : j <= k

\* a line comment that starts inside a block comment as well
LineCommentStarts_InsideComment(render, sl, i, insideString, insideComment) ==
    Len(sl) > 0 /\ ~insideString /\ StrNCmpEq(render, i, sl)

\* the test for the start of a single line comment at offset i
LineCommentStarts(render, sl, i, insideString, insideComment) ==
    Len(sl) > 0 /\ ~insideString /\ ~insideComment /\ StrNCmpEq(render, i, sl)

\* a number of which only the first digit is taken
NumberGoesOn_FirstDigitOnly(c, prev_hl, previousSeperator) ==
    \/ isdigit(c) /\ previousSeperator
    \/ c = "." /\ prev_hl = HIGHLIGHT_NUMBER

\* the test of the number branch on the byte c
NumberGoesOn(c, prev_hl, previousSeperator) ==
    \/ isdigit(c) /\ (previousSeperator \/ prev_hl = HIGHLIGHT_NUMBER)
    \/ c = "." /\ prev_hl = HIGHLIGHT_NUMBER

\* the variables of the while loop: its offset i (counted from 0), the
\* highlight array and the three flags; stopped after the break
ScanState(i, hl, previousSeperator, insideString, insideComment, stopped) ==
    [i |-> i, hl |-> hl, previousSeperator |-> previousSeperator,
     insideString |-> insideString, insideComment |-> insideComment,
     stopped |-> stopped]

\* One pass through the body of the while loop, entered with i < renderSize
ScanStep(render, syn, i, hl, previousSeperator, insideString, insideComment) ==
    LET c       == render[i + 1]
        prev_hl == IF i > 0 THEN hl[i] ELSE HIGHTLIGHT_NORMAL
        sl      == syn.singleline_comment_start
        mls     == syn.multiline_comment_start
        mle     == syn.multiline_comment_end
        kwj     == FirstKeyword(render, i, syn.keywords)
    IN
    IF LineCommentStarts(render, sl, i, insideString, insideComment)
    THEN ScanState(Len(render), MemSet(hl, i, Len(render) - i, HIGHLIGHT_COMMENT),
                   previousSeperator, insideString, insideComment, TRUE)
    ELSE IF Len(mls) > 0 /\ Len(mle) > 0 /\ ~insideString /\ insideComment
    THEN IF StrNCmpEq(render, i, mle)
         THEN ScanState(i + Len(mle),
                       MemSet(hl, i, Len(mle), HIGHLIGHT_MLCOMMENT), TRUE, insideString, FALSE, FALSE)
         ELSE ScanState(i + 1, MemSet(hl, i, 1, HIGHLIGHT_MLCOMMENT),
                       previousSeperator, insideString, insideComment, FALSE)
    ELSE IF Len(mls) > 0 /\ Len(mle) > 0 /\ ~insideString /\ StrNCmpEq(render, i, mls)
    THEN ScanState(i + Len(mls),
                  MemSet(hl, i, Len(mls), HIGHLIGHT_MLCOMMENT), previousSeperator,
                  insideString, TRUE, FALSE)
    ELSE IF SYNTAX_HIGHLIGHT_STRINGS \in syn.flags /\ insideString
    THEN IF c = "\\" /\ i + 1 < Len(render)
         THEN ScanState(i + 2, MemSet(hl, i, 2, HIGHLIGHT_STRING),
                       previousSeperator, insideString, insideComment, FALSE)
         ELSE ScanState(i + 1, MemSet(hl, i, 1, HIGHLIGHT_STRING), TRUE,
                       IF CharEqualsBool(c, insideString) THEN FALSE ELSE insideString,
                       insideComment, FALSE)
    ELSE IF SYNTAX_HIGHLIGHT_STRINGS \in syn.flags /\ c \in {"\"", "'"}
    THEN ScanState(i + 1, MemSet(hl, i, 1, HIGHLIGHT_STRING),
                  previousSeperator, c # NUL, insideComment, FALSE)
    ELSE IF SYNTAX_HIGHLIGHT_NUMBERS \in syn.flags /\ NumberGoesOn(c, prev_hl, previousSeperator)
    THEN ScanState(i + 1, MemSet(hl, i, 1, HIGHLIGHT_NUMBER), FALSE,
                  insideString, insideComment, FALSE)
    ELSE IF previousSeperator /\ kwj # 0
    THEN ScanState(i + KeywordLength(syn.keywords[kwj]),
                  MemSet(hl, i, KeywordLength(syn.keywords[kwj]),
                         KeywordGroup(syn.keywords[kwj])),
                  FALSE, insideString, insideComment, FALSE)
    ELSE ScanState(i + 1, hl, editor_is_separator(c), insideString,
                  insideComment, FALSE)

\* The while loop from offset i on; the result is the filled highlight array
\* and the final insideComment.
RECURSIVE ScanFrom(_, _, _, _, _, _, _)

\* the loop after one pass through its body
ScanAfter(render, syn, st) ==
    IF st.stopped THEN [hl |-> st.hl, open |-> st.insideComment]
    ELSE ScanFrom(render, syn, st.i, st.hl, st.previousSeperator, st.insideString,
                  st.insideComment)

ScanFrom(render, syn, i, hl, previousSeperator, insideString, insideComment) ==
    IF i >= Len(render) THEN [hl |-> hl, open |-> insideComment]
    ELSE ScanAfter(render, syn,
                   ScanStep(render, syn, i, hl, previousSeperator, insideString,
                            insideComment))

\* One row's scan: highLight is reallocated and cleared to normal, the scan
\* starts outside a string, after a separator, with the incoming comment state.
ScanRow(render, syn, incoming) ==
    ScanFrom(render, syn, 0, Array([k \in 1..Len(render) |-> HIGHTLIGHT_NORMAL]), TRUE, FALSE,
             incoming)

----------------------------------------------------------------------------
(* Rows: editor_row_t.  size is Len(chars), renderSize is Len(render). *)

\* the render buffer editor_update_row builds from chars: a tab becomes one
\* space and then spaces up to the next multiple of the tab stop size
RECURSIVE RenderFrom(_, _, _, _)
RenderFrom(chars, j, acc, tabStopSize) ==
    IF j > Len(chars) THEN acc
    ELSE IF chars[j] = "\t"
         THEN LET idx == Len(acc) + 1
                  pad == (tabStopSize - (idx % tabStopSize)) % tabStopSize
              IN  RenderFrom(chars, j + 1, acc \o [k \in 1..(1 + pad) |-> " "], tabStopSize)
         ELSE RenderFrom(chars, j + 1, Append(acc, chars[j]), tabStopSize)

\* a render with one space for every tab
Render_TabAsOneSpace(chars, tabStopSize) ==
    Array([k \in 1..Len(chars) |-> IF chars[k] = "\t" THEN " " ELSE chars[k]])

Render(chars, tabStopSize) == RenderFrom(chars, 1, <<>>, tabStopSize)

\* editor_update_syntax(&editorRows[p]) with editorConfig.numberOfRows = n and
\* editorConfig.syntax = syn, a pointer to an index of HighLightDataBase.
\* rows is the array (it may hold one row more than n while a row is being
\* inserted).  The result is the array and the trace of the recursion: one
\* entry per row re-highlighted, with whether its open comment flag changed.
RECURSIVE editor_update_syntax(_, _, _, _)

\* an end that goes on with the row in front of the one whose flag changed
UpdateSyntaxEnd_Upwards(rows, n, syn, p, scan) ==
    LET row     == rows[p + 1]
        changed == row.hightLightOpenComment # scan.open
        rows1   == [rows EXCEPT ![p + 1].highLight = scan.hl,
                                ![p + 1].hightLightOpenComment = scan.open]
    IN  IF changed /\ row.index > 0
        THEN LET rest == editor_update_syntax(rows1, n, syn, row.index - 1)
             IN  [rows  |-> rest.rows,
                  trace |-> << [at |-> p, changed |-> changed] >> \o rest.trace]
        ELSE [rows |-> rows1, trace |-> << [at |-> p, changed |-> changed] >>]

\* the end of editor_update_syntax(&editorRows[p]), from the scan's result on:
\* the open comment flag is stored and, when it has changed and a row
\* follows, that row is highlighted
UpdateSyntaxEnd(rows, n, syn, p, scan) ==
    LET row     == rows[p + 1]
        changed == row.hightLightOpenComment # scan.open
        rows1   == [rows EXCEPT ![p + 1].highLight = scan.hl,
                                ![p + 1].hightLightOpenComment = scan.open]
    IN  IF changed /\ row.index + 1 < n
        THEN LET rest == editor_update_syntax(rows1, n, syn, row.index + 1)
             IN  [rows  |-> rest.rows,
                  trace |-> << [at |-> p, changed |-> changed] >> \o rest.trace]
        ELSE [rows |-> rows1, trace |-> << [at |-> p, changed |-> changed] >>]

\* a highlighter that leaves the row as it is when no rule is active
update_syntax_NoClear(rows, n, syn, p) ==
    IF syn = NULL THEN [rows |-> rows, trace |-> << [at |-> p, changed |-> FALSE] >>]
    ELSE UpdateSyntaxEnd(rows, n, syn, p,
             ScanRow(rows[p + 1].render, HighLightDataBase[Deref(syn)],
                     rows[p + 1].index > 0 /\ rows[rows[p + 1].index].hightLightOpenComment))

editor_update_syntax(rows, n, syn, p) ==
    LET row == rows[p + 1]
    IN  IF syn = NULL
        THEN [rows  |-> [rows EXCEPT ![p + 1].highLight =
                            Array([k \in 1..Len(row.render) |-> HIGHTLIGHT_NORMAL])],
              trace |-> << [at |-> p, changed |-> FALSE] >>]
        ELSE UpdateSyntaxEnd(rows, n, syn, p,
                 ScanRow(row.render, HighLightDataBase[Deref(syn)],
                         row.index > 0 /\ rows[row.index].hightLightOpenComment))

\* editor_update_row(&editorRows[p])
editor_update_row(rows, n, syn, p, tabStopSize) ==
    editor_update_syntax(
        [rows EXCEPT ![p + 1].render = Render(rows[p + 1].chars, tabStopSize)],
        n, syn, p)

----------------------------------------------------------------------------
(* The coordinate mapper *)

RECURSIVE CxToRxFrom(_, _, _, _, _)
CxToRxFrom(chars, j, cursorCurrentX, renderX, tabStopSize) ==
    IF j >= cursorCurrentX THEN renderX
    ELSE LET r1 == IF CharAt(chars, j) = "\t"
                   THEN renderX + (tabStopSize - 1) - (renderX % tabStopSize)
                   ELSE renderX
         IN  CxToRxFrom(chars, j + 1, cursorCurrentX, r1 + 1, tabStopSize)

\* a mapper that takes a tab for one column
cx_to_rx_OneColumnTab(chars, cursorCurrentX, tabStopSize) == cursorCurrentX

editor_row_cx_to_rx(chars, cursorCurrentX, tabStopSize) ==
    CxToRxFrom(chars, 0, cursorCurrentX, 0, tabStopSize)

RECURSIVE RxToCxFrom(_, _, _, _, _)
RxToCxFrom(chars, cursorCurrentX, cur_rx, renderX, tabStopSize) ==
    IF cursorCurrentX >= Len(chars) THEN cursorCurrentX
    ELSE LET r1 == IF chars[cursorCurrentX + 1] = "\t"
                   THEN cur_rx + (tabStopSize - 1) - (cur_rx % tabStopSize)
                   ELSE cur_rx
         IN  IF r1 + 1 > renderX THEN cursorCurrentX
             ELSE RxToCxFrom(chars, cursorCurrentX + 1, r1 + 1, renderX, tabStopSize)

editor_row_rx_to_cx(chars, renderX, tabStopSize) ==
    RxToCxFrom(chars, 0, 0, renderX, tabStopSize)

----------------------------------------------------------------------------
(* Buffer operations.  e is a value of the global editorConfig; every       *)
(* operator returns the value the function leaves behind.  e.trace records  *)
(* the recursions of the editor_update_syntax calls made so far.           *)

\* the editor after a call of editor_update_row or editor_update_syntax that
\* has left upd
RowsUpdated(e, upd) == [e EXCEPT !.editorRows = upd.rows, !.trace = @ \o upd.trace]

NewRow(at, str) ==
    [index |-> at, chars |-> str, render |-> <<>>, highLight |-> <<>>,
     hightLightOpenComment |-> FALSE]

\* the array after the memmove and the index loop of editor_insert_row
ShiftForInsert(rows, at, str) ==
    Array([k \in 1..(Len(rows) + 1) |->
              IF k <= at THEN rows[k]
              ELSE IF k = at + 1 THEN NewRow(at, str)
              ELSE [rows[k - 1] EXCEPT !.index = @ + 1]])

\* editor_insert_row: the new row is rendered and highlighted before
\* numberOfRows is incremented
editor_insert_row(e, at, str) ==
    IF at < 0 \/ at > e.numberOfRows THEN e
    ELSE [RowsUpdated(e, editor_update_row(ShiftForInsert(e.editorRows, at, str),
                                           e.numberOfRows, e.syntax, at, e.tabStopSize))
             EXCEPT !.numberOfRows = @ + 1, !.unsavedChanges = TRUE]

\* a delete that leaves the rows behind the deleted one with their old index
editor_delete_row_KeepIndex(e, at) ==
    IF at < 0 \/ at >= e.numberOfRows THEN e
    ELSE [e EXCEPT !.editorRows =
                      Array([k \in 1..(Len(@) - 1) |-> IF k <= at THEN @[k] ELSE @[k + 1]]),
                   !.numberOfRows = @ - 1, !.unsavedChanges = TRUE]

\* editor_delete_row: no row is rendered or highlighted again
editor_delete_row(e, at) ==
    IF at < 0 \/ at >= e.numberOfRows THEN e
    ELSE [e EXCEPT !.editorRows =
                      Array([k \in 1..(Len(@) - 1) |->
                                IF k <= at THEN @[k] ELSE [@[k + 1] EXCEPT !.index = @ - 1]]),
                   !.numberOfRows = @ - 1, !.unsavedChanges = TRUE]

\* editor_row_insert_character(&editorRows[p], at, c)
editor_row_insert_character(e, p, at, c) ==
    LET row == e.editorRows[p + 1]
        at1 == IF at < 0 \/ at > Len(row.chars) THEN Len(row.chars) ELSE at
        chars1 == SubSeq(row.chars, 1, at1) \o <<c>> \o SubSeq(row.chars, at1 + 1, Len(row.chars))
    IN  [RowsUpdated(e, editor_update_row([e.editorRows EXCEPT ![p + 1].chars = chars1],
                                          e.numberOfRows, e.syntax, p, e.tabStopSize))
            EXCEPT !.unsavedChanges = TRUE]

\* a delete that clamps a column behind the row's end to its last byte
row_delete_character_Clamped(e, p, at) ==
    LET row == e.editorRows[p + 1]
        at1 == IF at >= Len(row.chars) THEN Len(row.chars) - 1 ELSE at
        chars1 == SubSeq(row.chars, 1, at1) \o SubSeq(row.chars, at1 + 2, Len(row.chars))
    IN  IF at < 0 \/ row.chars = <<>> THEN e
        ELSE [RowsUpdated(e, editor_update_row(
                                 [e.editorRows EXCEPT ![p + 1].chars = chars1],
                                 e.numberOfRows, e.syntax, p, e.tabStopSize))
                 EXCEPT !.unsavedChanges = TRUE]

\* editor_row_delete_character(&editorRows[p], at)
editor_row_delete_character(e, p, at) ==
    LET row == e.editorRows[p + 1]
        chars1 == SubSeq(row.chars, 1, at) \o SubSeq(row.chars, at + 2, Len(row.chars))
    IN  IF at < 0 \/ at >= Len(row.chars) THEN e
        ELSE [RowsUpdated(e, editor_update_row(
                                 [e.editorRows EXCEPT ![p + 1].chars = chars1],
                                 e.numberOfRows, e.syntax, p, e.tabStopSize))
                 EXCEPT !.unsavedChanges = TRUE]

\* an append that puts str in front of the row's bytes
row_append_string_InFront(e, p, str) ==
    [RowsUpdated(e, editor_update_row([e.editorRows EXCEPT ![p + 1].chars = str \o @],
                                      e.numberOfRows, e.syntax, p, e.tabStopSize))
        EXCEPT !.unsavedChanges = TRUE]

\* editor_row_append_string(&editorRows[p], str, length)
editor_row_append_string(e, p, str) ==
    [RowsUpdated(e, editor_update_row([e.editorRows EXCEPT ![p + 1].chars = @ \o str],
                                      e.numberOfRows, e.syntax, p, e.tabStopSize))
        EXCEPT !.unsavedChanges = TRUE]

\* the program has run into undefined behaviour (an access outside an
\* allocation, a use after free): nothing is known about what it does next
Undefined(e) == [e EXCEPT !.run = "undefined"]

\* editor_insert_character
editor_insert_character(e, c) ==
    LET e1 == IF e.cursorCurrentY = e.numberOfRows
              THEN editor_insert_row(e, e.numberOfRows, <<>>) ELSE e
    IN  IF e.cursorCurrentY > e.numberOfRows THEN Undefined(e)
        ELSE [editor_row_insert_character(e1, e.cursorCurrentY, e.cursorCurrentX, c)
                 EXCEPT !.cursorCurrentX = @ + 1]

\* editor_insert_newline after its editor_insert_row has left e: the row
\* under the cursor is cut at the cursor and rendered again
InsertNewlineEnd(e) ==
    RowsUpdated(e, editor_update_row(
                       [e.editorRows EXCEPT ![e.cursorCurrentY + 1].chars =
                                               SubSeq(@, 1, e.cursorCurrentX)],
                       e.numberOfRows, e.syntax, e.cursorCurrentY, e.tabStopSize))

\* editor_insert_newline.  With cursorCurrentX # 0 the row under the cursor is
\* read: past the array when cursorCurrentY = numberOfRows, and with the
\* length size - cursorCurrentX wrapped around when cursorCurrentX > size.
editor_insert_newline(e) ==
    IF e.cursorCurrentX = 0
    THEN [editor_insert_row(e, e.cursorCurrentY, <<>>)
             EXCEPT !.cursorCurrentY = @ + 1, !.cursorCurrentX = 0]
    ELSE IF e.cursorCurrentY >= e.numberOfRows THEN Undefined(e)
    ELSE LET cy  == e.cursorCurrentY
             cx  == e.cursorCurrentX
             row == e.editorRows[cy + 1]
         IN  IF cx > Len(row.chars) THEN Undefined(e)
             ELSE [InsertNewlineEnd(editor_insert_row(e, cy + 1,
                                        SubSeq(row.chars, cx + 1, Len(row.chars))))
                      EXCEPT !.cursorCurrentY = cy + 1, !.cursorCurrentX = 0]

\* editor_delete_character
editor_delete_character(e) ==
    LET cy == e.cursorCurrentY
        cx == e.cursorCurrentX
    IN  IF cy = e.numberOfRows THEN e
        ELSE IF cx = 0 /\ cy = 0 THEN e
        ELSE IF cy > e.numberOfRows THEN Undefined(e)
        ELSE IF cx > 0
        THEN [editor_row_delete_character(e, cy, cx - 1) EXCEPT !.cursorCurrentX = cx - 1]
        ELSE LET e1 == [e EXCEPT !.cursorCurrentX = Len(e.editorRows[cy].chars)]
                 e2 == editor_row_append_string(e1, cy - 1, e.editorRows[cy + 1].chars)
             IN  [editor_delete_row(e2, cy) EXCEPT !.cursorCurrentY = cy - 1]

----------------------------------------------------------------------------
(* Cursor, clipboard, scrolling *)

\* the size of the row under the cursor, 0 on the line past the last row
RowLen(e) ==
    IF e.cursorCurrentY >= e.numberOfRows THEN 0
    ELSE Len(e.editorRows[e.cursorCurrentY + 1].chars)

\* editor_move_cursor.  ARROW_LEFT at column 0 reads the row above the cursor,
\* which lies past the array when cursorCurrentY > numberOfRows.
editor_move_cursor(e, key) ==
    LET hasRow == e.cursorCurrentY < e.numberOfRows
        cx == e.cursorCurrentX
        cy == e.cursorCurrentY
        e1 == CASE key = "ARROW_LEFT" ->
                     IF cx # 0 THEN [e EXCEPT !.cursorCurrentX = cx - 1]
                     ELSE IF cy > 0
                          THEN IF cy - 1 >= e.numberOfRows THEN Undefined(e)
                               ELSE [e EXCEPT !.cursorCurrentY = cy - 1,
                                              !.cursorCurrentX = Len(e.editorRows[cy].chars)]
                          ELSE e
                [] key = "ARROW_RIGHT" ->
                     IF hasRow /\ cx < RowLen(e) THEN [e EXCEPT !.cursorCurrentX = cx + 1]
                     ELSE IF hasRow /\ cx = RowLen(e)
                          THEN [e EXCEPT !.cursorCurrentY = cy + 1, !.cursorCurrentX = 0]
                          ELSE e
                [] key = "ARROW_UP" ->
                     IF cy # 0 THEN [e EXCEPT !.cursorCurrentY = cy - 1] ELSE e
                [] key = "ARROW_DOWN" ->
                     IF cy < e.numberOfRows THEN [e EXCEPT !.cursorCurrentY = cy + 1] ELSE e
                [] OTHER -> e
    IN  IF e1.cursorCurrentX > RowLen(e1) THEN [e1 EXCEPT !.cursorCurrentX = RowLen(e1)]
        ELSE e1

RECURSIVE MoveCursorTimes(_, _, _)
MoveCursorTimes(e, key, times) ==
    IF times = 0 THEN e ELSE MoveCursorTimes(editor_move_cursor(e, key), key, times - 1)

\* case PAGE_UP / PAGE_DOWN of editor_process_keypress
PageKey(e, key) ==
    LET down == e.rowOffset + e.screenRows - 1
        e1 == IF key = "PAGE_UP" THEN [e EXCEPT !.cursorCurrentY = e.rowOffset]
              ELSE [e EXCEPT !.cursorCurrentY =
                                IF down > e.numberOfRows THEN e.numberOfRows ELSE down]
    IN  MoveCursorTimes(e1, IF key = "PAGE_UP" THEN "ARROW_UP" ELSE "ARROW_DOWN",
                        e.screenRows)

\* copy_buffer_write: malloc(length) may return NULL for length 0, and then
\* the buffer keeps what it held
copy_buffer_write(buffer, str, mallocZeroIsNull) ==
    IF Len(str) = 0 /\ mallocZeroIsNull THEN buffer
    ELSE [buffer |-> Ptr(str), length |-> Len(str)]

\* copy_buffer_init
copy_buffer_init == [buffer |-> NULL, length |-> 0]

\* editor_yank_line: on the line past the last row it reads editorRows[numberOfRows]
editor_yank_line(e, mallocZeroIsNull) ==
    IF e.cursorCurrentY >= e.numberOfRows THEN Undefined(e)
    ELSE [e EXCEPT !.copyBuffer =
                      copy_buffer_write(@, e.editorRows[e.cursorCurrentY + 1].chars,
                                        mallocZeroIsNull)]

\* editor_paste_line
editor_paste_line(e) ==
    IF e.copyBuffer.buffer # NULL /\ e.copyBuffer.length # 0
    THEN editor_insert_row(e, e.cursorCurrentY, Deref(e.copyBuffer.buffer))
    ELSE e

\* a scroll that leaves the cursor one line and one column past the far edge
editor_scroll_PastFarEdge(e) ==
    LET rx == IF e.cursorCurrentY < e.numberOfRows
              THEN editor_row_cx_to_rx(e.editorRows[e.cursorCurrentY + 1].chars,
                                       e.cursorCurrentX, e.tabStopSize)
              ELSE 0
        ro1 == IF e.cursorCurrentY < e.rowOffset THEN e.cursorCurrentY ELSE e.rowOffset
        ro2 == IF e.cursorCurrentY >= ro1 + e.screenRows
               THEN e.cursorCurrentY - e.screenRows ELSE ro1
        co1 == IF rx < e.columnOffset THEN rx ELSE e.columnOffset
        co2 == IF rx >= co1 + e.screenColumns THEN rx - e.screenColumns ELSE co1
    IN  [e EXCEPT !.renderX = rx, !.rowOffset = ro2, !.columnOffset = co2]

\* editor_scroll, the first step of every editor_refresh_screen
editor_scroll(e) ==
    LET rx == IF e.cursorCurrentY < e.numberOfRows
              THEN editor_row_cx_to_rx(e.editorRows[e.cursorCurrentY + 1].chars,
                                       e.cursorCurrentX, e.tabStopSize)
              ELSE 0
        ro1 == IF e.cursorCurrentY < e.rowOffset THEN e.cursorCurrentY ELSE e.rowOffset
        ro2 == IF e.cursorCurrentY >= ro1 + e.screenRows
               THEN e.cursorCurrentY - e.screenRows + 1 ELSE ro1
        co1 == IF rx < e.columnOffset THEN rx ELSE e.columnOffset
        co2 == IF rx >= co1 + e.screenColumns THEN rx - e.screenColumns + 1 ELSE co1
    IN  [e EXCEPT !.renderX = rx, !.rowOffset = ro2, !.columnOffset = co2]

\* what printf's %d writes for n >= 0
RECURSIVE Decimal(_)
Decimal(n) ==
    LET digit == <<"0", "1", "2", "3", "4", "5", "6", "7", "8", "9">>[(n % 10) + 1]
    IN  IF n < 10 THEN <<digit>> ELSE Append(Decimal(n \div 10), digit)

\* editor_set_status_message(format, arg): the message is kept as its format
\* and the bytes written for its one conversion (none: the empty sequence)
editor_set_status_message(e, format, arg) ==
    [e EXCEPT !.statusMessage = [format |-> format, arg |-> arg]]

\* statusMessage[0] = '\0'
NoMessage == [format |-> "", arg |-> <<>>]

\* editor_show_help
editor_show_help(e) ==
    editor_set_status_message(e, "HELP: Ctrl-D = delete | Ctrl-F = find | Ctrl-H = help | Ctrl-O = open | Ctrl-P = paste | Ctrl-Q = quit | Ctrl-S = save | Ctrl-Y = yank", <<>>)

\* editor_quit: a refused attempt decrements quitTimes, otherwise the process exits
editor_quit(e) ==
    IF e.unsavedChanges /\ e.quitTimes > 0
    THEN [editor_set_status_message(e,
              "WARNING!!! File has unsaved changes. Press Ctrl-Q %d more times to quit.",
              Decimal(e.quitTimes))
             EXCEPT !.quitTimes = @ - 1]
    ELSE [e EXCEPT !.copyBuffer = copy_buffer_init, !.run = "exited"]

----------------------------------------------------------------------------
(* Files: disk maps a path to the bytes of the file at that path. *)

\* the lines getline returns for the bytes of a file, each cut at its
\* trailing '\n' and '\r' bytes as editor_open cuts it
RECURSIVE StripLineEnd(_)
StripLineEnd(line) ==
    IF Len(line) > 0 /\ line[Len(line)] \in {"\n", "\r"}
    THEN StripLineEnd(SubSeq(line, 1, Len(line) - 1))
    ELSE line

RECURSIVE GetLines(_, _, _, _)
GetLines(bytes, j, cur, acc) ==
    IF j > Len(bytes) THEN IF cur = <<>> THEN acc ELSE Append(acc, StripLineEnd(cur))
    ELSE IF bytes[j] = "\n"
         THEN GetLines(bytes, j + 1, <<>>, Append(acc, StripLineEnd(Append(cur, "\n"))))
         ELSE GetLines(bytes, j + 1, Append(cur, bytes[j]), acc)

\* strrchr(fileName, '.'): the part of the name from its last '.' on, or NULL
FileExtension(name) ==
    LET dots == {i \in 1..Len(name) : name[i] = "."}
    IN  IF dots = {} THEN NULL
        ELSE Ptr(SubSeq(name, CHOOSE i \in dots : \A j \in dots : j <= i, Len(name)))

\* the condition of editor_select_syntax_highlight for one filematch entry
FileMatches(name, pattern) ==
    IF pattern[1] = "."
    THEN FileExtension(name) # NULL /\ Deref(FileExtension(name)) = pattern
    ELSE StrStr(name, pattern) # NULL

\* the index of the first rule with a matching filematch entry, 0 when none has one
FirstLanguage(name) ==
    LET hits == {j \in 1..syntax_get_language_count :
                    \E i \in 1..Len(HighLightDataBase[j].filematch) :
                        FileMatches(name, HighLightDataBase[j].filematch[i])}
    IN  IF hits = {} THEN 0 ELSE CHOOSE j \in hits : \A k \in hits : j <= k

\* the loop of editor_select_syntax_highlight over the rows, from row p on
RECURSIVE UpdateSyntaxFrom(_, _)
UpdateSyntaxFrom(e, p) ==
    IF p >= e.numberOfRows THEN e
    ELSE UpdateSyntaxFrom(
             RowsUpdated(e, editor_update_syntax(e.editorRows, e.numberOfRows, e.syntax, p)),
             p + 1)

\* editor_select_syntax_highlight
editor_select_syntax_highlight(e) ==
    IF e.fileName = NULL THEN [e EXCEPT !.syntax = NULL]
    ELSE LET j == FirstLanguage(Deref(e.fileName))
         IN  IF j = 0 THEN [e EXCEPT !.syntax = NULL]
             ELSE UpdateSyntaxFrom([e EXCEPT !.syntax = Ptr(j)], 0)

\* editor_initialize (the window size is read again and is the same)
editor_initialize(e) ==
    [e EXCEPT !.cursorCurrentX = 0, !.cursorCurrentY = 0, !.renderX = 0,
              !.rowOffset = 0, !.columnOffset = 0, !.numberOfRows = 0,
              !.unsavedChanges = FALSE, !.quitTimes = QUIT_TIMES, !.editorRows = <<>>,
              !.fileName = NULL, !.syntax = NULL, !.copyBuffer = copy_buffer_init,
              !.statusMessage = NoMessage]

RECURSIVE InsertLines(_, _, _)
InsertLines(e, lines, j) ==
    IF j > Len(lines) THEN e
    ELSE InsertLines(editor_insert_row(e, e.numberOfRows, lines[j]), lines, j + 1)

\* editor_open(filePath) with the files of dsk
editor_open(e, filePath, dsk) ==
    IF filePath \notin DOMAIN dsk
    THEN editor_set_status_message(e, "File under the path %s not found", filePath)
    ELSE LET e1 == InsertLines(e, GetLines(dsk[filePath], 1, <<>>, <<>>), 1)
             e2 == editor_select_syntax_highlight([e1 EXCEPT !.fileName = Ptr(filePath)])
         IN  [e2 EXCEPT !.unsavedChanges = FALSE, !.cursorCurrentX = 0]

\* editor_rows_to_string
RECURSIVE RowsToString(_, _)
RowsToString(rows, j) ==
    IF j > Len(rows) THEN <<>>
    ELSE rows[j].chars \o <<"\n">> \o RowsToString(rows, j + 1)

\* a flat string without the line end of the last row
rows_to_string_NoLastLineEnd(e) ==
    LET rows == SubSeq(e.editorRows, 1, e.numberOfRows)
    IN  IF rows = <<>> THEN <<>>
        ELSE LET s == UNION { {<<k, j>> : j \in 1..(Len(rows[k].chars) + 1)} : k \in 1..Len(rows) }
                 n == Cardinality(s) - 1
             IN  Array([i \in 1..n |->
                     LET kj == CHOOSE kj \in s :
                                  Cardinality({x \in s : x[1] < kj[1] \/ (x[1] = kj[1] /\ x[2] < kj[2])}) = i - 1
                     IN  IF kj[2] > Len(rows[kj[1]].chars) THEN "\n" ELSE rows[kj[1]].chars[kj[2]]])

editor_rows_to_string(e) == RowsToString(SubSeq(e.editorRows, 1, e.numberOfRows), 1)

\* the file after ftruncate(fd, length): cut, or extended by NUL bytes
Truncated(bytes, length) ==
    Array([k \in 1..length |-> IF k <= Len(bytes) THEN bytes[k] ELSE NUL])

\* a save that takes a write of fewer bytes for a complete one
SaveToDisk_ShortIsDone(e, dsk, io) ==
    LET name   == Deref(e.fileName)
        buffer == editor_rows_to_string(e)
        old    == IF name \in DOMAIN dsk THEN dsk[name] ELSE <<>>
        failed == editor_set_status_message(e, "Can't save! I/O error: %s", <<io>>)
        done   == editor_set_status_message([e EXCEPT !.unsavedChanges = FALSE],
                                            "%d bytes written to disk", Decimal(Len(buffer)))
    IN  CASE io = "ok"       -> [e |-> done, disk |-> (name :> buffer) @@ dsk]
          [] io = "open"     -> [e |-> failed, disk |-> dsk]
          [] io = "truncate" -> [e |-> failed, disk |-> (name :> old) @@ dsk]
          [] io = "write"    -> [e |-> failed,
                                 disk |-> (name :> Truncated(old, Len(buffer))) @@ dsk]
          [] io = "short"    -> [e |-> done,
                                 disk |-> (name :> Array([k \in 1..Len(buffer) |->
                                                      IF k < Len(buffer) THEN buffer[k]
                                                      ELSE Truncated(old, Len(buffer))[k]]))
                                          @@ dsk]

\* The part of editor_save after the file name is known.  io is what the
\* system calls do: "ok", or the first call that fails ("short": write has
\* written all bytes but the last); the error text of a failure stands for
\* the call that failed.
SaveToDisk(e, dsk, io) ==
    LET name   == Deref(e.fileName)
        buffer == editor_rows_to_string(e)
        old    == IF name \in DOMAIN dsk THEN dsk[name] ELSE <<>>
        failed == editor_set_status_message(e, "Can't save! I/O error: %s", <<io>>)
    IN  CASE io = "ok"       -> [e |-> editor_set_status_message(
                                           [e EXCEPT !.unsavedChanges = FALSE],
                                           "%d bytes written to disk", Decimal(Len(buffer))),
                                 disk |-> (name :> buffer) @@ dsk]
          [] io = "open"     -> [e |-> failed, disk |-> dsk]
          [] io = "truncate" -> [e |-> failed, disk |-> (name :> old) @@ dsk]
          [] io = "write"    -> [e |-> failed,
                                 disk |-> (name :> Truncated(old, Len(buffer))) @@ dsk]
          [] io = "short"    -> [e |-> failed,
                                 disk |-> (name :> Array([k \in 1..Len(buffer) |->
                                                      IF k < Len(buffer) THEN buffer[k]
                                                      ELSE Truncated(old, Len(buffer))[k]]))
                                          @@ dsk]

----------------------------------------------------------------------------
(* Search: editor_find_callback and its four static variables *)

\* The for loop of editor_find_callback from iteration i on.  f holds the
\* editor and the statics; the result is f after the loop.
\* a step that wraps to the first row at either end
NextRow_WrapToFirst(current0, direction, numberOfRows) ==
    LET stepped == current0 + direction
    IN  IF stepped = -1 \/ stepped = numberOfRows THEN 0 ELSE stepped

\* current += direction, wrapped at both ends of the buffer
NextRow(current0, direction, numberOfRows) ==
    LET stepped == current0 + direction
    IN  IF stepped = -1 THEN numberOfRows - 1
        ELSE IF stepped = numberOfRows THEN 0 ELSE stepped

RECURSIVE FindLoop(_, _, _, _, _)
FindLoop(f, query, current0, i, mallocZeroIsNull) ==
    IF i >= f.e.numberOfRows THEN f
    ELSE
    LET n       == f.e.numberOfRows
        current == NextRow(current0, f.direction, n)
        row     == f.e.editorRows[current + 1]
        match   == StrStr(row.render, query)
    IN  IF match = NULL THEN FindLoop(f, query, current, i + 1, mallocZeroIsNull)
        ELSE [f EXCEPT
                !.lastMatch = current,
                !.e.cursorCurrentY = current,
                !.e.cursorCurrentX =
                    editor_row_rx_to_cx(row.chars, Deref(match), f.e.tabStopSize) + 1,
                !.e.rowOffset = n,
                !.savedHighLightedLine = current,
                !.savedHighLight =
                    IF Len(row.render) = 0 /\ mallocZeroIsNull THEN NULL
                    ELSE Ptr(row.highLight),
                !.e.editorRows[current + 1].highLight =
                    MemSet(@, Deref(match), Len(query), HIGHLIGHT_MATCH)]

\* a restore that frees the saved copy without copying it back
RestoreHighLight_FreeOnly(f) == [f EXCEPT !.savedHighLight = NULL]

\* if (savedHighLight): the saved copy is copied back over the row's
\* highlight and freed
RestoreHighLight(f) ==
    IF f.savedHighLight # NULL
    THEN [f EXCEPT !.e.editorRows[f.savedHighLightedLine + 1].highLight =
                       Deref(f.savedHighLight),
                   !.savedHighLight = NULL]
    ELSE f

\* editor_find_callback(query, key); f holds the editor and the statics
editor_find_callback(f, query, key, mallocZeroIsNull) ==
    LET f1 == RestoreHighLight(f)
        f2 == IF key \in {"ARROW_RIGHT", "ARROW_DOWN"} THEN [f1 EXCEPT !.direction = 1]
              ELSE IF key \in {"ARROW_LEFT", "ARROW_UP"} THEN [f1 EXCEPT !.direction = -1]
              ELSE [f1 EXCEPT !.lastMatch = -1, !.direction = 1]
        f3 == IF f2.lastMatch = -1 THEN [f2 EXCEPT !.direction = 1] ELSE f2
    IN  IF key \in {"\r", "ESC"} THEN [f1 EXCEPT !.lastMatch = -1, !.direction = 1]
        ELSE FindLoop(f3, query, f3.lastMatch, 0, mallocZeroIsNull)

\* editor_open_file_callback(query, key)
editor_open_file_callback(e, query, key, dsk) ==
    IF key # "\r" THEN e
    ELSE IF e.unsavedChanges
    THEN editor_set_status_message(e,
             "Can not open a new file, while currently opened file has some unsaved changes",
             <<>>)
    ELSE editor_open(editor_initialize(e), query, dsk)

----------------------------------------------------------------------------
(* The state machine *)

VARIABLES
    editorConfig,          \* the global editor_config_t
    pc,                    \* where the program reads its next key: "start", "main",
                           \* or the prompt "find", "open", "save"
    buf,                   \* editor_prompt: the text typed so far
    saved,                 \* editor_find / editor_open_file: the saved cursor and offsets
    lastMatch,             \* editor_find_callback: static
    direction,             \* editor_find_callback: static
    savedHighLightedLine,  \* editor_find_callback: static
    savedHighLight,        \* editor_find_callback: static
    disk,                  \* the files
    callbackKey            \* editor_prompt: the key read last (c)

vars == << editorConfig, pc, buf, saved, lastMatch, direction, savedHighLightedLine,
           savedHighLight, disk, callbackKey >>

findStatics == << lastMatch, direction, savedHighLightedLine, savedHighLight >>

\* Bounds of the model: the bytes of the buffer written out (every row and
\* its line end), and the bytes typed into a prompt
MaxBytes == 5

MaxPrompt == 2

\* the terminal window: screenRows (two lines less than the window's) and screenColumns
ScreenRows == 8

ScreenColumns == 8

\* the file given on the command line
MainFile == <<"x", ".", "c">>

\* the bytes typed into rows and prompts
TypedBytes == {"/", "*"}

NoSaved == [cursorCurrentX |-> 0, cursorCurrentY |-> 0, columnOffset |-> 0, rowOffset |-> 0]

NoKey == "none"

\* main: the state editor_initialize leaves, before editor_open(argv[1])
InitWith(files, rows, columns, tabStopSize) ==
    /\ editorConfig = [cursorCurrentX |-> 0, cursorCurrentY |-> 0, renderX |-> 0,
                       rowOffset |-> 0, columnOffset |-> 0,
                       screenRows |-> rows, screenColumns |-> columns,
                       numberOfRows |-> 0, editorRows |-> <<>>, unsavedChanges |-> FALSE,
                       fileName |-> NULL, syntax |-> NULL, copyBuffer |-> copy_buffer_init,
                       quitTimes |-> QUIT_TIMES, tabStopSize |-> tabStopSize,
                       statusMessage |-> NoMessage,
                       run |-> "running", trace |-> <<>>]
    /\ pc = "start"
    /\ buf = <<>>
    /\ saved = NoSaved
    /\ lastMatch = -1
    /\ direction = 1
    /\ savedHighLightedLine = 0
    /\ savedHighLight = NULL
    /\ disk = files
    /\ callbackKey = NoKey

Running == editorConfig.run = "running"

\* the editor at the start of a key's handler
Cur == editorConfig

\* the trace is what a handler reports, no part of the program's state
Stored(e) == [e EXCEPT !.trace = <<>>]

\* a key's handler in editor_process_keypress up to the function's end
ProcessKeypressEnd(e, key) ==
    IF e.run # "running" \/ key = "CTRL_Q" THEN e ELSE [e EXCEPT !.quitTimes = QUIT_TIMES]

\* the end of editor_process_keypress and the editor_refresh_screen of the next
\* loop iteration
MainTail(e, key) ==
    LET e1 == ProcessKeypressEnd(e, key)
    IN  Stored(IF e1.run # "running" THEN e1 ELSE editor_scroll(e1))

\* the size of the buffer written out: editor_rows_to_string's totlen
FlatLen(e) == Len(editor_rows_to_string(e))

\* a key handled without a prompt: back to the main loop
BackToMain(e, key) ==
    /\ editorConfig' = MainTail(e, key)
    /\ callbackKey' = NoKey
    /\ UNCHANGED << pc, buf, saved, findStatics, disk >>

\* main: editor_open(argv[1]) when a path is given, then the first refresh
Startup(args) ==
    /\ pc = "start"
    /\ \E arg \in args :
          editorConfig' = Stored(editor_scroll(IF arg = NULL THEN Cur
                                               ELSE editor_open(Cur, Deref(arg), disk)))
    /\ pc' = "main"
    /\ UNCHANGED << buf, saved, findStatics, disk, callbackKey >>

AtMain == pc = "main" /\ Running

\* '\r'
KeyEnter(maxBytes) ==
    /\ AtMain
    /\ FlatLen(editorConfig) < maxBytes
    /\ BackToMain(editor_insert_newline(Cur), "\r")

\* CTRL_KEY('q')
KeyQuit ==
    /\ AtMain
    /\ BackToMain(editor_quit(Cur), "CTRL_Q")

\* HOME_KEY, END_KEY
KeyHomeEnd ==
    /\ AtMain
    /\ \/ BackToMain([Cur EXCEPT !.cursorCurrentX = 0], "HOME_KEY")
       \/ BackToMain(IF Cur.cursorCurrentY < Cur.numberOfRows
                     THEN [Cur EXCEPT !.cursorCurrentX = RowLen(Cur)] ELSE Cur, "END_KEY")

\* CTRL_KEY('h')
KeyHelp ==
    /\ AtMain
    /\ BackToMain(editor_show_help(Cur), "CTRL_H")

\* case CTRL_KEY('d') after editor_yank_line has left e
DeleteLineEnd(e) ==
    IF e.run = "running" THEN editor_delete_row(e, e.cursorCurrentY) ELSE e

\* CTRL_KEY('d'): yank the line, then delete it
KeyDeleteLine ==
    /\ AtMain
    /\ \E mallocZeroIsNull \in BOOLEAN :
          BackToMain(DeleteLineEnd(editor_yank_line(Cur, mallocZeroIsNull)), "CTRL_D")

\* CTRL_KEY('y')
KeyYank ==
    /\ AtMain
    /\ \E mallocZeroIsNull \in BOOLEAN :
          BackToMain(editor_yank_line(Cur, mallocZeroIsNull), "CTRL_Y")

\* CTRL_KEY('p')
KeyPaste(maxBytes) ==
    /\ AtMain
    /\ FlatLen(editorConfig) + editorConfig.copyBuffer.length < maxBytes
    /\ BackToMain(editor_paste_line(Cur), "CTRL_P")

\* case BACKSPACE / DEL_KEY after DEL_KEY's editor_move_cursor has left e
DeleteEnd(e) ==
    IF e.run = "running" THEN editor_delete_character(e) ELSE e

\* BACKSPACE, DEL_KEY
KeyDelete ==
    /\ AtMain
    /\ \E key \in {"BACKSPACE", "DEL_KEY"} :
          BackToMain(DeleteEnd(IF key = "DEL_KEY" THEN editor_move_cursor(Cur, "ARROW_RIGHT")
                               ELSE Cur), key)

\* PAGE_UP, PAGE_DOWN
KeyPage ==
    /\ AtMain
    /\ \E key \in {"PAGE_UP", "PAGE_DOWN"} : BackToMain(PageKey(Cur, key), key)

\* ARROW_UP, ARROW_DOWN, ARROW_LEFT, ARROW_RIGHT
KeyArrow ==
    /\ AtMain
    /\ \E key \in {"ARROW_UP", "ARROW_DOWN", "ARROW_LEFT", "ARROW_RIGHT"} :
          BackToMain(editor_move_cursor(Cur, key), key)

\* CTRL_KEY('l'), '\x1b'
KeyEscape ==
    /\ AtMain
    /\ BackToMain(Cur, "ESC")

\* default: every other key is inserted as a byte (the model stops the
\* buffer, and a cursor column past the end of its row, from growing past
\* maxBytes)
KeyInsert(keys, maxBytes) ==
    /\ AtMain
    /\ FlatLen(editorConfig) + (IF editorConfig.cursorCurrentY = editorConfig.numberOfRows
                                THEN 1 ELSE 0) < maxBytes
    /\ editorConfig.cursorCurrentX < maxBytes
    /\ \E c \in keys : BackToMain(editor_insert_character(Cur, c), c)

----------------------------------------------------------------------------
(* Prompts: editor_prompt with its callers editor_find, editor_open_file and *)
(* editor_save                                                               *)

CursorOf(e) ==
    [cursorCurrentX |-> e.cursorCurrentX, cursorCurrentY |-> e.cursorCurrentY,
     columnOffset |-> e.columnOffset, rowOffset |-> e.rowOffset]

\* the prompt argument of editor_prompt's callers
PromptFormat(which) ==
    CASE which = "find" -> "Search: %s (Use ESC/Arrows/Enter)"
      [] which = "open" -> "Open: %s (Use ESC/Enter)"
      [] which = "save" -> "Save as: %s (ESC to cancel)"

\* entering editor_prompt: the first editor_set_status_message and
\* editor_refresh_screen of its loop
EnterPrompt(which) ==
    /\ pc' = which
    /\ buf' = <<>>
    /\ saved' = IF which = "save" THEN NoSaved ELSE CursorOf(Cur)
    /\ editorConfig' = Stored(editor_scroll(
                           editor_set_status_message(Cur, PromptFormat(which), <<>>)))
    /\ callbackKey' = NoKey
    /\ UNCHANGED << findStatics, disk >>

\* CTRL_KEY('f'): editor_find up to the prompt's first read
KeyFind ==
    /\ AtMain
    /\ EnterPrompt("find")

\* CTRL_KEY('o'): editor_open_file up to the prompt's first read
KeyOpen ==
    /\ AtMain
    /\ EnterPrompt("open")

\* editor_save has left the editor s.e and the files s.disk, and
\* editor_process_keypress runs to its end
SaveReturn(s) ==
    /\ editorConfig' = MainTail(s.e, "CTRL_S")
    /\ disk' = s.disk
    /\ callbackKey' = NoKey
    /\ UNCHANGED << pc, buf, saved, findStatics >>

\* CTRL_KEY('s'): editor_save; without a file name up to the prompt's first read
KeySave(ios) ==
    /\ AtMain
    /\ IF editorConfig.fileName = NULL THEN EnterPrompt("save")
       ELSE \E io \in ios :
               /\ io = "short" => FlatLen(Cur) > 0
               /\ SaveReturn(SaveToDisk(Cur, disk, io))

AtPrompt(which) == pc = which /\ Running

\* the statics of editor_find_callback with the editor e
StaticsWith(e) ==
    [e |-> e, lastMatch |-> lastMatch, direction |-> direction,
     savedHighLightedLine |-> savedHighLightedLine, savedHighLight |-> savedHighLight]

\* the editor and the statics of editor_find_callback, as the callback uses them
Statics == StaticsWith(Cur)

SetStatics(f) ==
    /\ lastMatch' = f.lastMatch
    /\ direction' = f.direction
    /\ savedHighLightedLine' = f.savedHighLightedLine
    /\ savedHighLight' = f.savedHighLight

\* the prompt goes on after its callback has left f: the next
\* editor_set_status_message and editor_refresh_screen of its loop
PromptStay(f, newbuf, key) ==
    /\ editorConfig' = Stored(editor_scroll(
                           editor_set_status_message(f.e, PromptFormat(pc), newbuf)))
    /\ SetStatics(f)
    /\ buf' = newbuf
    /\ callbackKey' = key
    /\ UNCHANGED << pc, saved, disk >>

\* editor_prompt has returned to its caller, which has left e and dsk, and
\* editor_process_keypress runs to its end
PromptReturn(f, e, dsk, key, pressed) ==
    /\ SetStatics(f)
    /\ pc' = "main"
    /\ buf' = <<>>
    /\ saved' = NoSaved
    /\ callbackKey' = key
    /\ editorConfig' = MainTail(e, pressed)
    /\ disk' = dsk

\* buf after DEL_KEY or BACKSPACE
Shortened(text) == IF text # <<>> THEN SubSeq(text, 1, Len(text) - 1) ELSE text

RestoreCursor(e) ==
    [e EXCEPT !.cursorCurrentX = saved.cursorCurrentX,
              !.cursorCurrentY = saved.cursorCurrentY,
              !.columnOffset = saved.columnOffset, !.rowOffset = saved.rowOffset]

(* The prompt of editor_find, with editor_find_callback *)

\* DEL_KEY, BACKSPACE
FindDelete ==
    /\ AtPrompt("find")
    /\ \E key \in {"DEL_KEY", "BACKSPACE"}, mallocZeroIsNull \in BOOLEAN :
          PromptStay(editor_find_callback(Statics, Shortened(buf), key, mallocZeroIsNull),
                     Shortened(buf), key)

\* editor_find after a prompt ended by '\x1b', whose callback has left f
FindCancelled(f) == PromptReturn(f, RestoreCursor(f.e), disk, "ESC", "CTRL_F")

\* the prompt after '\r', whose callback has left f
FindEntered(f) ==
    IF buf # <<>> THEN PromptReturn(f, f.e, disk, "\r", "CTRL_F")
    ELSE PromptStay(f, buf, "\r")

\* '\x1b': the callback is called, the prompt returns NULL and editor_find
\* restores the cursor
FindEscape ==
    /\ AtPrompt("find")
    /\ \E mallocZeroIsNull \in BOOLEAN :
          FindCancelled(editor_find_callback(
                            StaticsWith(editor_set_status_message(Cur, "", <<>>)),
                            buf, "ESC", mallocZeroIsNull))

\* '\r': with text typed, the callback is called and the prompt returns the
\* text; without, the callback is called and the prompt goes on
FindEnter ==
    /\ AtPrompt("find")
    /\ \E mallocZeroIsNull \in BOOLEAN :
          FindEntered(editor_find_callback(Statics, buf, "\r", mallocZeroIsNull))

\* a byte that is no control byte: appended to the text
FindText(keys, maxPrompt) ==
    /\ AtPrompt("find")
    /\ Len(buf) < maxPrompt
    /\ \E c \in keys, mallocZeroIsNull \in BOOLEAN :
          PromptStay(editor_find_callback(Statics, Append(buf, c), c, mallocZeroIsNull),
                     Append(buf, c), c)

\* every other key (an arrow, a control byte): only the callback is called
FindOther(keys) ==
    /\ AtPrompt("find")
    /\ \E key \in keys, mallocZeroIsNull \in BOOLEAN :
          PromptStay(editor_find_callback(Statics, buf, key, mallocZeroIsNull), buf, key)

(* The prompt of editor_open_file, with editor_open_file_callback *)

OpenDelete ==
    /\ AtPrompt("open")
    /\ \E key \in {"DEL_KEY", "BACKSPACE"} :
          PromptStay(StaticsWith(editor_open_file_callback(Cur, Shortened(buf), key, disk)),
                     Shortened(buf), key)

OpenEscape ==
    /\ AtPrompt("open")
    /\ PromptReturn(Statics,
                    RestoreCursor(editor_open_file_callback(
                                      editor_set_status_message(Cur, "", <<>>),
                                      buf, "ESC", disk)),
                    disk, "ESC", "CTRL_O")

\* a prompt that returns on every '\r', with text typed or without
OpenEntered_AlwaysReturns(e) == PromptReturn(Statics, e, disk, "\r", "CTRL_O")

\* the prompt after '\r', whose callback has left e
OpenEntered(e) ==
    IF buf # <<>> THEN PromptReturn(Statics, e, disk, "\r", "CTRL_O")
    ELSE PromptStay(StaticsWith(e), buf, "\r")

OpenEnter ==
    /\ AtPrompt("open")
    /\ OpenEntered(editor_open_file_callback(Cur, buf, "\r", disk))

OpenText(keys, maxPrompt) ==
    /\ AtPrompt("open")
    /\ Len(buf) < maxPrompt
    /\ \E c \in keys :
          PromptStay(StaticsWith(editor_open_file_callback(Cur, Append(buf, c), c, disk)),
                     Append(buf, c), c)

OpenOther(keys) ==
    /\ AtPrompt("open")
    /\ \E key \in keys :
          PromptStay(StaticsWith(editor_open_file_callback(Cur, buf, key, disk)), buf, key)

(* The prompt of editor_save, without a callback *)

SaveDelete ==
    /\ AtPrompt("save")
    /\ \E key \in {"DEL_KEY", "BACKSPACE"} : PromptStay(Statics, Shortened(buf), key)

\* '\x1b': the prompt returns NULL and editor_save returns ("Save aborted")
SaveEscape ==
    /\ AtPrompt("save")
    /\ PromptReturn(Statics, editor_set_status_message(Cur, "Save aborted", <<>>),
                    disk, "ESC", "CTRL_S")

\* editor_save, entered without a file name, has left the editor s.e and the
\* files s.disk
SaveAsReturn(s) == PromptReturn(Statics, s.e, s.disk, "\r", "CTRL_S")

\* '\r': with text typed editor_save goes on with it as the file name
SaveEnter(ios) ==
    /\ AtPrompt("save")
    /\ IF buf # <<>>
       THEN \E io \in ios :
               /\ io = "short" => FlatLen(Cur) > 0
               /\ SaveAsReturn(SaveToDisk(editor_select_syntax_highlight(
                                              [Cur EXCEPT !.fileName = Ptr(buf)]), disk, io))
       ELSE PromptStay(Statics, buf, "\r")

SaveText(keys, maxPrompt) ==
    /\ AtPrompt("save")
    /\ Len(buf) < maxPrompt
    /\ \E c \in keys : PromptStay(Statics, Append(buf, c), c)

SaveOther(keys) ==
    /\ AtPrompt("save")
    /\ \E key \in keys : PromptStay(Statics, buf, key)

----------------------------------------------------------------------------
(* The editor with every key, within the bounds *)

ArrowKeys == {"ARROW_UP", "ARROW_DOWN", "ARROW_LEFT", "ARROW_RIGHT"}

----------------------------------------------------------------------------
\* Spec: a session on the C file x.c, whose first line opens a block comment;
\* the keys of the main loop that split, join, delete, copy and paste lines
\* and move the cursor (nothing is typed), the buffer written out kept
\* within MaxBytes bytes
Init ==
    InitWith(MainFile :> <<"/", "*", "\n", "/">>, ScreenRows, ScreenColumns,
             DEFAULT_TAB_STOP_SIZE)

Next ==
    \/ Startup({Ptr(MainFile)})
    \/ KeyEnter(MaxBytes)
    \/ KeyHomeEnd
    \/ KeyHelp
    \/ KeyDeleteLine
    \/ KeyYank
    \/ KeyPaste(MaxBytes)
    \/ KeyDelete
    \/ KeyPage
    \/ KeyArrow
    \/ KeyEscape

Spec == Init /\ [][Next]_vars

----------------------------------------------------------------------------
\* SpecEdit: a session started without a file (no syntax rule), the same keys
\* and Ctrl-Q, typing a letter and a tab, the buffer written out kept within
\* MaxEdit bytes
MaxEdit == 4

EditBytes == {"a", "\t"}

NoFiles == [f \in {} |-> <<>>]

InitEdit == InitWith(NoFiles, ScreenRows, ScreenColumns, DEFAULT_TAB_STOP_SIZE)

NextEdit ==
    \/ Startup({NULL})
    \/ KeyEnter(MaxEdit)
    \/ KeyQuit
    \/ KeyHomeEnd
    \/ KeyHelp
    \/ KeyDeleteLine
    \/ KeyYank
    \/ KeyPaste(MaxEdit)
    \/ KeyDelete
    \/ KeyPage
    \/ KeyArrow
    \/ KeyEscape
    \/ KeyInsert(EditBytes, MaxEdit)

SpecEdit == InitEdit /\ [][NextEdit]_vars

----------------------------------------------------------------------------
\* the sequences over S of lengths from..to
SeqsOf(S, from, to) == UNION { [1..k -> S] : k \in from..to }

\* the keys that look at a file without changing it
NextView ==
    \/ Startup({Ptr(MainFile)})
    \/ KeyHomeEnd
    \/ KeyArrow
    \/ KeyPage
    \/ KeyHelp
    \/ KeyEscape

\* SpecScan: x.c holds one line, a quote, up to MaxString more bytes that
\* matter to a string, and the text " int"
MaxString == 2

StringBytes == {"\"", "'", "\\", "a"}

ScanLines ==
    { <<q>> \o s \o <<" ", "i", "n", "t">> :
          q \in {"\"", "'"}, s \in SeqsOf(StringBytes, 0, MaxString) }

InitScan ==
    \E line \in ScanLines :
        InitWith(MainFile :> line, ScreenRows, ScreenColumns, DEFAULT_TAB_STOP_SIZE)

SpecScan == InitScan /\ [][NextView]_vars

\* SpecCoord: x.c holds one line of up to MaxLine tabs and letters, and the
\* configuration set a tab stop size of 1..MaxTab
MaxLine == 3

MaxTab == 4

InitCoord ==
    \E line \in SeqsOf({"\t", "a"}, 0, MaxLine), tabStopSize \in 1..MaxTab :
        InitWith(MainFile :> line, ScreenRows, ScreenColumns, tabStopSize)

SpecCoord == InitCoord /\ [][NextView]_vars

\* SpecFind: x.c holds four lines, two of them with the letter a, one with
\* a tab, one with an upper case letter and one with a digit; the keys that
\* move the cursor, and the search prompt with up to MaxPrompt bytes typed
FindFile == <<"a", "b", "\n", "\t", "b", "\n", "A", "b", "\n", "1", "a">>

FindBytes == {"a", "b"}

InitFind ==
    InitWith(MainFile :> FindFile, ScreenRows, ScreenColumns, DEFAULT_TAB_STOP_SIZE)

NextFind ==
    \/ Startup({Ptr(MainFile)})
    \/ KeyHomeEnd
    \/ KeyArrow
    \/ KeyFind
    \/ FindDelete
    \/ FindEscape
    \/ FindEnter
    \/ FindText(FindBytes, MaxPrompt)
    \/ FindOther(ArrowKeys)

SpecFind == InitFind /\ [][NextFind]_vars

----------------------------------------------------------------------------
(* Claims on the highlighting of a session (Spec) *)

\* the active rule of the editor
Rule(e) == HighLightDataBase[Deref(e.syntax)]

\* what the highlighter produces from the render of row k (from 0) with the
\* open comment flag of the row before it as the incoming state
Rescan(e, k) ==
    ScanRow(e.editorRows[k + 1].render, Rule(e),
            k > 0 /\ e.editorRows[k].hightLightOpenComment)

\* C1: with a syntax rule active and no search in progress, every row's
\* highlight array is what the highlighter produces from the row's render
\* with the previous row's open comment flag as the incoming state, and the
\* row's open comment flag is the final state of that scan.
C1_NoStaleHighlight ==
    (AtMain /\ editorConfig.syntax # NULL) =>
        \A k \in 0..(editorConfig.numberOfRows - 1) :
            /\ editorConfig.editorRows[k + 1].highLight = Rescan(editorConfig, k).hl
            /\ editorConfig.editorRows[k + 1].hightLightOpenComment
                   = Rescan(editorConfig, k).open

\* the operations of the main loop that re-highlight a row, applied to the
\* editor as it is
Rehighlighting(e) ==
    { editor_insert_character(e, c) : c \in TypedBytes }
        \cup { editor_delete_character(e), editor_insert_newline(e), editor_paste_line(e) }

\* a trace in which every row whose open comment flag changed, and that has a
\* row after it in the buffer, is followed by the re-highlight of that row
CascadeComplete(e) ==
    \A j \in 1..Len(e.trace) :
        (e.trace[j].changed /\ e.trace[j].at + 1 < e.numberOfRows) =>
            /\ j < Len(e.trace)
            /\ e.trace[j + 1].at = e.trace[j].at + 1

\* C2: whenever an operation re-highlights row i and changes its open comment
\* flag while a row i+1 exists, row i+1 is re-highlighted before the operation
\* returns, and so on until a flag is unchanged or the last row is reached.
C2_CascadeRule ==
    (AtMain /\ editorConfig.syntax # NULL) =>
        \A e \in Rehighlighting([editorConfig EXCEPT !.trace = <<>>]) :
            e.run = "running" => CascadeComplete(e)

\* whether a block comment is open after row k (from 0), by the text alone:
\* the rows scanned in order from the first row
RECURSIVE OpenAfter(_, _)
OpenAfter(e, k) ==
    IF k < 0 THEN FALSE
    ELSE ScanRow(e.editorRows[k + 1].render, Rule(e), OpenAfter(e, k - 1)).open

\* the character edits at the cursor, applied to the editor as it is
CharacterEdits(e) ==
    { editor_insert_character(e, c) : c \in TypedBytes } \cup { editor_delete_character(e) }

\* C3: under a rule with block comment markers, every byte of a row that
\* follows a row leaving a block comment open, and that does not hold the end
\* marker, is classified block comment; and after a character edit of row N
\* that closes its comment, row N+1 is highlighted with incoming state false.
C3_OpenCommentMarksRows ==
    (AtMain /\ editorConfig.syntax # NULL
        /\ Rule(editorConfig).multiline_comment_start # NULL) =>
        /\ \A e \in CharacterEdits(editorConfig) :
               LET N == editorConfig.cursorCurrentY
               IN  (/\ e.run = "running" /\ e.numberOfRows = editorConfig.numberOfRows
                    /\ N + 1 < e.numberOfRows
                    /\ editorConfig.editorRows[N + 1].hightLightOpenComment
                    /\ ~e.editorRows[N + 1].hightLightOpenComment) =>
                       e.editorRows[N + 2].highLight
                           = ScanRow(e.editorRows[N + 2].render, Rule(e), FALSE).hl
        /\ \A k \in 1..(editorConfig.numberOfRows - 1) :
               (/\ OpenAfter(editorConfig, k - 1)
                /\ StrStr(editorConfig.editorRows[k + 1].render,
                          Rule(editorConfig).multiline_comment_end) = NULL) =>
                    \A b \in 1..Len(editorConfig.editorRows[k + 1].highLight) :
                        editorConfig.editorRows[k + 1].highLight[b] = HIGHLIGHT_MLCOMMENT

----------------------------------------------------------------------------
(* Claims on the highlighter and the coordinate mapper (SpecScan, SpecCoord) *)

\* the first position after p (from 0) holding the byte q that no backslash
\* inside the string escapes, or the row's length if there is none
RECURSIVE ClosingQuote(_, _, _)
ClosingQuote(render, p, q) ==
    IF p >= Len(render) THEN Len(render)
    ELSE IF render[p + 1] = "\\" /\ p + 1 < Len(render) THEN ClosingQuote(render, p + 2, q)
    ELSE IF render[p + 1] = q THEN p
    ELSE ClosingQuote(render, p + 1, q)

\* C4: with string highlighting enabled, a string opened by a quote byte ends
\* at the next unescaped byte equal to it: the bytes up to and including that
\* one are classified string, and the bytes after it are classified as the
\* highlighter classifies them outside a string.
C4_StringEndsAtQuote ==
    (/\ AtMain /\ editorConfig.numberOfRows > 0 /\ editorConfig.syntax # NULL
     /\ SYNTAX_HIGHLIGHT_STRINGS \in Rule(editorConfig).flags
     /\ editorConfig.editorRows[1].render # <<>>
     /\ editorConfig.editorRows[1].render[1] \in {"\"", "'"}) =>
        LET row    == editorConfig.editorRows[1]
            close  == ClosingQuote(row.render, 1, row.render[1])
            after  == SubSeq(row.render, close + 2, Len(row.render))
        IN  close < Len(row.render) =>
                /\ \A b \in 1..(close + 1) : row.highLight[b] = HIGHLIGHT_STRING
                /\ SubSeq(row.highLight, close + 2, Len(row.render))
                       = ScanRow(after, Rule(editorConfig), FALSE).hl

\* C5: for every row of tabs and other bytes, every tab stop size of at least
\* one and every column cx of the row (its end included), taking cx to its
\* rendered column and back gives cx.
C5_RoundTrip ==
    AtMain =>
        \A k \in 1..editorConfig.numberOfRows :
            \A cx \in 0..Len(editorConfig.editorRows[k].chars) :
                editor_row_rx_to_cx(editorConfig.editorRows[k].chars,
                    editor_row_cx_to_rx(editorConfig.editorRows[k].chars, cx,
                                        editorConfig.tabStopSize),
                    editorConfig.tabStopSize) = cx

\* the cursor stands at the end of a row that holds a letter and then a tab
\* wider than one column, and the scroll step has mapped its column
C5_Witness ==
    /\ AtMain /\ editorConfig.numberOfRows > 0
    /\ editorConfig.tabStopSize > 1
    /\ Len(editorConfig.editorRows[1].chars) >= 2
    /\ editorConfig.editorRows[1].chars[1] = "a"
    /\ editorConfig.editorRows[1].chars[2] = "\t"
    /\ editorConfig.cursorCurrentX = Len(editorConfig.editorRows[1].chars)
    /\ editorConfig.renderX > editorConfig.cursorCurrentX

----------------------------------------------------------------------------
(* Claims on the search (SpecFind) *)

\* the highlight arrays of the rows
HighLights ==
    Array([k \in 1..editorConfig.numberOfRows |-> editorConfig.editorRows[k].highLight])

\* the highlight arrays with the row a match marked set back to its saved copy
RestoredHighLights ==
    Array([k \in 1..editorConfig.numberOfRows |->
              IF savedHighLight # NULL /\ k = savedHighLightedLine + 1
              THEN Deref(savedHighLight) ELSE editorConfig.editorRows[k].highLight])

NoMatchClass(hls) ==
    \A k \in DOMAIN hls : \A b \in DOMAIN hls[k] : hls[k][b] # HIGHLIGHT_MATCH

\* C6: search never changes highlighting for good.  From the key that opens
\* the search prompt to the key that ends it, every step keeps the highlight
\* arrays, with the row marked by the previous match set back to its saved
\* copy, as they were before the search; when the prompt ends by Enter or by
\* Escape nothing is left saved, so every row's highlight is what it was
\* before the search began, and no byte has the search-match class.
C6_SearchRestoresHighlight ==
    [][ (/\ pc \in {"main", "find"} /\ pc' \in {"main", "find"}
         /\ (pc = "find" \/ pc' = "find")) =>
            /\ RestoredHighLights' = RestoredHighLights
            /\ NoMatchClass(RestoredHighLights')
            /\ pc' = "main" => (savedHighLight' = NULL /\ NoMatchClass(HighLights')) ]_vars

\* a search that matched the a of the row "1a", whose digit is classified as
\* a number, has ended by Enter
C6_Witness ==
    /\ pc = "main" /\ callbackKey = "\r"
    /\ editorConfig.cursorCurrentY = 3
    /\ lastMatch = -1 /\ savedHighLight = NULL
    /\ editorConfig.editorRows[4].highLight = <<HIGHLIGHT_NUMBER, HIGHTLIGHT_NORMAL>>

\* the rows in the order a search step visits them, from one row past last
\* in the direction dir, modulo the row count
VisitOrder(last, dir, n) == Array([k \in 1..n |-> (last + dir * k) % n])

\* query is a substring of render, byte for byte
Contains(render, query) ==
    \E i \in 0..(Len(render) - Len(query)) :
        SubSeq(render, i + 1, i + Len(query)) = query

\* C7: a search step visits the rows in circular order from one row past the
\* last match in the key's direction (forward from row 0 when there is no
\* last match) and selects the first visited row whose render contains the
\* query byte for byte; when no row contains it no match is reported, and
\* the cursor and the highlight arrays stay as the step found them.
C7_SearchOrder ==
    [][ (pc = "find" /\ pc' = "find" /\ callbackKey' \notin {"\r", "ESC"}) =>
            LET n     == editorConfig.numberOfRows
                key   == callbackKey'
                last  == IF key \in ArrowKeys THEN lastMatch ELSE -1
                dir   == IF last # -1 /\ key \in {"ARROW_LEFT", "ARROW_UP"} THEN -1 ELSE 1
                order == VisitOrder(last, dir, n)
                hits  == {k \in 1..n :
                             Contains(editorConfig.editorRows[order[k] + 1].render, buf')}
            IN  IF hits = {}
                THEN /\ lastMatch' = last
                     /\ savedHighLight' = NULL
                     /\ editorConfig'.cursorCurrentX = editorConfig.cursorCurrentX
                     /\ editorConfig'.cursorCurrentY = editorConfig.cursorCurrentY
                     /\ HighLights' = RestoredHighLights
                ELSE LET first == CHOOSE k \in hits : \A j \in hits : k <= j
                     IN  /\ lastMatch' = order[first]
                         /\ editorConfig'.cursorCurrentY = order[first]
                         /\ savedHighLightedLine' = order[first] ]_vars

\* the search for "a" went back from its match in the first row and wrapped
\* to the last row, past the row "Ab"
C7_Witness ==
    /\ pc = "find" /\ callbackKey = "ARROW_UP"
    /\ buf = <<"a">> /\ lastMatch = 3 /\ editorConfig.cursorCurrentY = 3

\* the rendered column at which query first occurs in render
MatchColumn(render, query) ==
    CHOOSE i \in 0..Len(render) :
        /\ SubSeq(render, i + 1, i + Len(query)) = query
        /\ \A j \in 0..(i - 1) : SubSeq(render, j + 1, j + Len(query)) # query

\* C8: on a match at rendered column m of row r the cursor row is r, the
\* cursor column is the raw column of m, and exactly the Len(query) bytes
\* from m carry the search-match class.
C8_CursorAtMatch ==
    (pc = "find" /\ Running /\ lastMatch # -1) =>
        LET row == editorConfig.editorRows[lastMatch + 1]
            m   == MatchColumn(row.render, buf)
        IN  /\ editorConfig.cursorCurrentY = lastMatch
            /\ editorConfig.cursorCurrentX
                   = editor_row_rx_to_cx(row.chars, m, editorConfig.tabStopSize)
            /\ \A b \in 1..Len(row.render) :
                   row.highLight[b] = HIGHLIGHT_MATCH <=> (m < b /\ b <= m + Len(buf))

----------------------------------------------------------------------------
(* Claims on quitting and on Enter (SpecEdit) *)

\* C9: with unsaved changes the editor exits on the third consecutive quit
\* keypress.  Every other key sets quitTimes back to QUIT_TIMES and every
\* refused quit keypress takes one off, so QUIT_TIMES - quitTimes is the
\* number of consecutive quit keypresses made: while the editor runs it is
\* less than three.
C9_ExitsOnThirdQuit ==
    AtMain => QUIT_TIMES - editorConfig.quitTimes < 3

\* the raw bytes of the rows
Chars(e) == Array([k \in 1..e.numberOfRows |-> e.editorRows[k].chars])

\* C10: Enter with the cursor at (cx, cy) on an existing row cuts row cy to
\* its first cx bytes and inserts a row cy+1 with the bytes from cx on; the
\* row count grows by one, the other rows keep their content and order, and
\* the cursor moves to column 0 of row cy+1.
C10_EnterSplitsRow ==
    (AtMain /\ editorConfig.cursorCurrentY < editorConfig.numberOfRows) =>
        LET cx    == editorConfig.cursorCurrentX
            cy    == editorConfig.cursorCurrentY
            old   == Chars(editorConfig)
            e     == editor_insert_newline(editorConfig)
        IN  /\ e.run = "running"
            /\ e.numberOfRows = editorConfig.numberOfRows + 1
            /\ Chars(e) = SubSeq(old, 1, cy)
                              \o << SubSeq(old[cy + 1], 1, cx),
                                    SubSeq(old[cy + 1], cx + 1, Len(old[cy + 1])) >>
                              \o SubSeq(old, cy + 2, Len(old))
            /\ e.cursorCurrentX = 0
            /\ e.cursorCurrentY = cy + 1

----------------------------------------------------------------------------
(* Claims on joining rows and on character edits (Spec, SpecEdit) *)

\* C11: Backspace at column 0 of an existing row r > 0 joins rows: row r-1
\* becomes its old raw bytes followed by those of row r, row r is removed,
\* the row count decreases by one, the other rows keep their raw bytes and
\* their order, and the cursor moves to row r-1 at the column equal to the old
\* length of row r-1.
C11_BackspaceJoinsRows ==
    (/\ AtMain /\ editorConfig.cursorCurrentX = 0
     /\ editorConfig.cursorCurrentY > 0
     /\ editorConfig.cursorCurrentY < editorConfig.numberOfRows) =>
        LET r   == editorConfig.cursorCurrentY
            old == Chars(editorConfig)
            e   == editor_delete_character(editorConfig)
        IN  /\ e.run = "running"
            /\ e.numberOfRows = editorConfig.numberOfRows - 1
            /\ Chars(e) = SubSeq(old, 1, r - 1) \o << old[r] \o old[r + 1] >>
                              \o SubSeq(old, r + 2, Len(old))
            /\ \A k \in 1..e.numberOfRows : e.editorRows[k].index = k - 1
            /\ e.cursorCurrentY = r - 1
            /\ e.cursorCurrentX = Len(old[r])
            /\ e.unsavedChanges

\* the two lines of x.c have been joined to the one row "/*/" and the cursor
\* stands where the first line ended
C11_Witness ==
    /\ AtMain /\ editorConfig.numberOfRows = 1
    /\ editorConfig.editorRows[1].chars = <<"/", "*", "/">>
    /\ editorConfig.cursorCurrentX = 2 /\ editorConfig.cursorCurrentY = 0
    /\ editorConfig.unsavedChanges

\* the raw bytes, the render and the highlight array of every row
RowContents(e) ==
    Array([k \in 1..e.numberOfRows |->
              [chars |-> e.editorRows[k].chars, render |-> e.editorRows[k].render,
               highLight |-> e.editorRows[k].highLight]])

\* C12: for every row, every column col of it (its end included) and every
\* byte c, inserting c at col and then deleting the byte at col restores the
\* row's raw bytes, its render and its highlight array, and the highlight
\* arrays of the rows after it, to what they were before the insert.
C12_InsertDeleteRestores ==
    AtMain =>
        \A p \in 0..(editorConfig.numberOfRows - 1) :
            \A col \in 0..Len(editorConfig.editorRows[p + 1].chars), c \in TypedBytes :
                RowContents(editor_row_delete_character(
                                editor_row_insert_character(editorConfig, p, col, c), p, col))
                    = RowContents(editorConfig)

----------------------------------------------------------------------------
\* SpecSave: a session started without a file or on the file x.c, typing a
\* letter, Enter, Backspace and Delete, and Ctrl-S with every outcome of its
\* system calls, through the "Save as" prompt when the buffer has no file
\* name; the buffer written out kept within MaxSave bytes
MaxSave == 4

SaveBytes == {"a"}

\* the file names typed into the prompts
NameBytes == {"x"}

SaveOutcomes == {"ok", "open", "truncate", "write", "short"}

InitSave ==
    InitWith(MainFile :> <<"a", "\n">>, ScreenRows, ScreenColumns, DEFAULT_TAB_STOP_SIZE)

NextSave ==
    \/ Startup({NULL, Ptr(MainFile)})
    \/ KeyEnter(MaxSave)
    \/ KeyDelete
    \/ KeyInsert(SaveBytes, MaxSave)
    \/ KeySave(SaveOutcomes)
    \/ SaveDelete
    \/ SaveEscape
    \/ SaveEnter(SaveOutcomes)
    \/ SaveText(NameBytes, 1)
    \/ SaveOther(ArrowKeys)

SpecSave == InitSave /\ [][NextSave]_vars

----------------------------------------------------------------------------
(* Claims on saving (SpecSave) *)

\* the number of bytes the rows before row k (from 1) take in the flat
\* string: their sizes and one line end each
RECURSIVE OffsetOf(_, _)
OffsetOf(rows, k) == IF k <= 1 THEN 0 ELSE OffsetOf(rows, k - 1) + Len(rows[k - 1]) + 1

\* s holds the rows in order, each followed by one '\n', and nothing else
IsFlatOf(s, rows) ==
    /\ Len(s) = OffsetOf(rows, Len(rows) + 1)
    /\ \A k \in 1..Len(rows) :
           /\ \A j \in 1..Len(rows[k]) : s[OffsetOf(rows, k) + j] = rows[k][j]
           /\ s[OffsetOf(rows, k) + Len(rows[k]) + 1] = "\n"

\* this step is a save that succeeded
SaveSucceeded ==
    /\ pc \in {"main", "save"} /\ pc' = "main"
    /\ editorConfig'.statusMessage.format = "%d bytes written to disk"
    /\ ~editorConfig'.unsavedChanges
    /\ \/ editorConfig'.statusMessage # editorConfig.statusMessage
       \/ editorConfig.unsavedChanges
       \/ disk' # disk

\* C13: the flat string of the buffer is the rows' raw bytes in row order,
\* each row followed by one '\n', of length the sum of the sizes plus one per
\* row; a save that succeeds leaves exactly these bytes in the file, and
\* reports their number.
C13_SaveWritesFlatString ==
    [][ /\ IsFlatOf(editor_rows_to_string(editorConfig'), Chars(editorConfig'))
        /\ SaveSucceeded =>
              /\ Chars(editorConfig') = Chars(editorConfig)
              /\ Deref(editorConfig'.fileName) \in DOMAIN disk'
              /\ IsFlatOf(disk'[Deref(editorConfig'.fileName)], Chars(editorConfig'))
              /\ editorConfig'.statusMessage.arg
                     = Decimal(OffsetOf(Chars(editorConfig'),
                                        editorConfig'.numberOfRows + 1)) ]_vars

\* the rows "aa" and "" have been saved under the name typed into the prompt
C13_Witness ==
    /\ AtMain /\ editorConfig.fileName = Ptr(<<"x">>)
    /\ Chars(editorConfig) = << <<"a", "a">>, <<>> >>
    /\ <<"x">> \in DOMAIN disk /\ disk[<<"x">>] = <<"a", "a", "\n", "\n">>
    /\ ~editorConfig.unsavedChanges
    /\ editorConfig.statusMessage.format = "%d bytes written to disk"

----------------------------------------------------------------------------
(* Claims on highlighting without a rule and under the C rule *)

IntLine ==
    <<"i", "n", "t", " ", "x", ";", " ", "/", "/", " ", "c", "o", "m", "m", "e", "n", "t">>

InitLine == InitWith(MainFile :> IntLine, ScreenRows, ScreenColumns, DEFAULT_TAB_STOP_SIZE)

SpecLine == InitLine /\ [][NextView]_vars

\* the highlight of the line with its first three bytes in the class group,
\* the four bytes after them normal, and the bytes from `//` on line comment
IntLineHighLight(group) ==
    <<group, group, group>>
        \o <<HIGHTLIGHT_NORMAL, HIGHTLIGHT_NORMAL, HIGHTLIGHT_NORMAL, HIGHTLIGHT_NORMAL>>
        \o Array([k \in 1..10 |-> HIGHLIGHT_COMMENT])

\* C15 as stated: under the C rule the row `int x; // comment` has the three
\* bytes of `int` in keyword group 1, the trailing comment in line comment
\* and every other byte normal.
C15_IntIsFirstGroup ==
    (AtMain /\ editorConfig.numberOfRows = 1) =>
        editorConfig.editorRows[1].highLight
            = IntLineHighLight(HIGHLIGHT_KEYWORDS_FIRST_GROUP)

\* C15 amended: under the C rule the row `int x; // comment` has the three
\* bytes of `int` in keyword group 2 (the table entry is `int|`), the bytes
\* from `//` to the end of the row in line comment and every other byte
\* normal, and the row leaves no block comment open.
C15_IntIsSecondGroup ==
    (AtMain /\ editorConfig.numberOfRows = 1) =>
        /\ editorConfig.editorRows[1].render = IntLine
        /\ editorConfig.editorRows[1].highLight
               = IntLineHighLight(HIGHLIGHT_KEYWORDS_SECOND_GROUP)
        /\ ~editorConfig.editorRows[1].hightLightOpenComment

\* the line has been loaded under the C rule and the cursor stands at its end
C15_Witness ==
    /\ AtMain /\ editorConfig.syntax = Ptr(1)
    /\ editorConfig.numberOfRows = 1 /\ editorConfig.editorRows[1].chars = IntLine
    /\ editorConfig.cursorCurrentX = Len(IntLine)

----------------------------------------------------------------------------
(* Claims on scrolling (SpecScroll) *)

\* SpecScroll: the file of SpecFind in a window of ScrollRows lines and
\* ScrollColumns columns, smaller than the file in both directions; the keys
\* that move the cursor and the search prompt
ScrollRows == 2

ScrollColumns == 3

InitScroll ==
    InitWith(MainFile :> FindFile, ScrollRows, ScrollColumns, DEFAULT_TAB_STOP_SIZE)

NextScroll ==
    \/ Startup({Ptr(MainFile)})
    \/ KeyHomeEnd
    \/ KeyArrow
    \/ KeyPage
    \/ KeyFind
    \/ FindDelete
    \/ FindEscape
    \/ FindEnter
    \/ FindText(FindBytes, MaxPrompt)
    \/ FindOther(ArrowKeys)

SpecScroll == InitScroll /\ [][NextScroll]_vars

\* the cursor of e is shown in its window
InViewport(e) ==
    /\ e.rowOffset <= e.cursorCurrentY
    /\ e.cursorCurrentY < e.rowOffset + e.screenRows
    /\ e.columnOffset <= e.renderX
    /\ e.renderX < e.columnOffset + e.screenColumns

\* from the offset `from` an axis with the cursor at `at` in a window of `size`
\* is scrolled to `to`: not at all if the cursor was inside, else up to the
\* nearest edge
ClampScrolled(from, at, size, to) ==
    /\ (from <= at /\ at < from + size) => to = from
    /\ at < from => to = at
    /\ at >= from + size => to + size - 1 = at

\* C16: where the program waits for a key, after the scroll of the redraw,
\* the cursor is inside the viewport on both axes; and from whatever offsets
\* the scroll starts, it leaves an offset alone when the cursor was inside on
\* that axis and otherwise moves it just far enough to have the cursor on the
\* nearest edge.
C16_ScrollClampsCursor ==
    (pc # "start" /\ Running) =>
        /\ InViewport(editorConfig)
        /\ \A ro \in 0..editorConfig.numberOfRows + 1,
              co \in 0..editorConfig.renderX + ScrollColumns + 1 :
              LET before == [editorConfig EXCEPT !.rowOffset = ro, !.columnOffset = co]
                  after == editor_scroll(before)
              IN  /\ InViewport(after)
                  /\ after.renderX = editorConfig.renderX
                  /\ ClampScrolled(ro, before.cursorCurrentY, before.screenRows,
                                   after.rowOffset)
                  /\ ClampScrolled(co, after.renderX, before.screenColumns,
                                   after.columnOffset)

\* the window has been scrolled down by one line and, with the cursor at the
\* end of the second line behind its tab, right by three columns
C16_Witness ==
    /\ AtMain /\ editorConfig.cursorCurrentY = 1 /\ editorConfig.cursorCurrentX = 2
    /\ editorConfig.renderX = DEFAULT_TAB_STOP_SIZE + 1
    /\ editorConfig.rowOffset = 1
    /\ editorConfig.columnOffset = DEFAULT_TAB_STOP_SIZE + 2 - ScrollColumns

----------------------------------------------------------------------------
(* Claims on loading a file (SpecOpen) *)

\* SpecOpen: the files x.c and y exist, z does not; the editor is started
\* without a file, with x.c or with z; the keys that change the buffer up to
\* MaxOpen bytes, and the open prompt with one byte typed
MaxOpen == 5

OtherFile == <<"y">>

MissingFile == <<"z">>

OpenFiles == (MainFile :> <<"a">>) @@ (OtherFile :> <<"b", "\n", "a", "\n">>)

OpenBytes == {"y", "z"}

InitOpen == InitWith(OpenFiles, ScreenRows, ScreenColumns, DEFAULT_TAB_STOP_SIZE)

NextOpen ==
    \/ Startup({NULL, Ptr(MainFile), Ptr(MissingFile)})
    \/ KeyEnter(MaxOpen)
    \/ KeyYank
    \/ KeyPaste(MaxOpen)
    \/ KeyDelete
    \/ KeyInsert(SaveBytes, MaxOpen)
    \/ KeyOpen
    \/ OpenDelete
    \/ OpenEscape
    \/ OpenEnter
    \/ OpenText(OpenBytes, 1)
    \/ OpenOther(ArrowKeys)

SpecOpen == InitOpen /\ [][NextOpen]_vars

\* the step is main's editor_open of a path that cannot be opened
StartFailed ==
    /\ pc = "start" /\ pc' = "main"
    /\ editorConfig'.statusMessage.format = "File under the path %s not found"

\* the step is Enter in the open prompt, answered by editor_open of a path
\* that cannot be opened
PromptLoadFailed ==
    /\ pc = "open" /\ callbackKey' = "\r"
    /\ ~editorConfig.unsavedChanges
    /\ buf \notin DOMAIN disk

\* the step is an editor_open that has read a file
LoadSucceeded ==
    \/ /\ pc = "start" /\ pc' = "main"
       /\ editorConfig'.fileName # NULL
    \/ /\ pc = "open" /\ callbackKey' = "\r"
       /\ ~editorConfig.unsavedChanges
       /\ buf \in DOMAIN disk

\* the buffer after the step is the buffer before it
BufferKept ==
    /\ editorConfig'.numberOfRows = editorConfig.numberOfRows
    /\ RowContents(editorConfig') = RowContents(editorConfig)
    /\ editorConfig'.fileName = editorConfig.fileName
    /\ editorConfig'.syntax = editorConfig.syntax

\* C19: a load that fails, at startup or from the open prompt, is reported
\* as a status message (seen once the prompt has returned) and leaves the
\* row count, the rows, the file name and the syntax rule as they were.
C19_FailedLoadKeepsBuffer ==
    [][ /\ StartFailed =>
            /\ editorConfig'.statusMessage.arg = MissingFile
            /\ BufferKept
        /\ PromptLoadFailed =>
            /\ pc' = "main" =>
                  editorConfig'.statusMessage
                      = [format |-> "File under the path %s not found", arg |-> buf]
            /\ BufferKept ]_vars


\* C19's case at startup: the editor started on a path that cannot be opened
\* waits for keys with an empty buffer and the failure as its message
StartFailedKeepsEmpty ==
    [][StartFailed => (BufferKept /\ editorConfig'.numberOfRows = 0)]_vars

----------------------------------------------------------------------------
(* Claims on the dirty flag (SpecOpen, SpecSave) *)

\* C17: a step that changes the row count or a row's raw bytes, other than a
\* load that has read a file, leaves unsavedChanges set, and a step that
\* clears unsavedChanges is a save that wrote the whole buffer or a load that
\* has read a file; so whenever the rows differ from those of the last
\* successful save or load, unsavedChanges is true.
C17_ChangedRowsAreDirty ==
    [][ /\ (Chars(editorConfig') # Chars(editorConfig) /\ ~LoadSucceeded)
               => editorConfig'.unsavedChanges
        /\ (editorConfig.unsavedChanges /\ ~editorConfig'.unsavedChanges)
               => (SaveSucceeded \/ LoadSucceeded) ]_vars

\* the same with the loads that fail from the open prompt left aside
DirtyButForFailedLoad ==
    [][ ~PromptLoadFailed =>
          /\ (Chars(editorConfig') # Chars(editorConfig) /\ ~LoadSucceeded)
                 => editorConfig'.unsavedChanges
          /\ (editorConfig.unsavedChanges /\ ~editorConfig'.unsavedChanges)
                 => (SaveSucceeded \/ LoadSucceeded) ]_vars


\* the step is an editor_save that has reported a failure
SaveFailed ==
    /\ pc \in {"main", "save"} /\ pc' = "main"
    /\ editorConfig'.statusMessage.format = "Can't save! I/O error: %s"
    /\ \/ editorConfig'.statusMessage # editorConfig.statusMessage
       \/ disk' # disk

\* C18: a save that fails (open, truncate, write, or a write of fewer bytes)
\* sets the failure message, leaves the row count and the rows' raw bytes and
\* renders as they were and leaves unsavedChanges at its value; and
\* unsavedChanges is cleared only by a save after which the file holds the
\* whole flat string.
C18_FailedSaveKeepsDirty ==
    [][ /\ SaveFailed =>
            /\ editorConfig'.statusMessage.arg
                   \in {<<io>> : io \in SaveOutcomes \ {"ok"}}
            /\ editorConfig'.numberOfRows = editorConfig.numberOfRows
            /\ Chars(editorConfig') = Chars(editorConfig)
            /\ \A k \in 1..editorConfig.numberOfRows :
                  editorConfig'.editorRows[k].render = editorConfig.editorRows[k].render
            /\ editorConfig'.unsavedChanges = editorConfig.unsavedChanges
        /\ (editorConfig.unsavedChanges /\ ~editorConfig'.unsavedChanges) =>
            /\ SaveSucceeded
            /\ editorConfig'.fileName # NULL
            /\ Deref(editorConfig'.fileName) \in DOMAIN disk'
            /\ disk'[Deref(editorConfig'.fileName)] = editor_rows_to_string(editorConfig') ]_vars

\* x.c was changed to the line `aa`, and a save has written two of its three
\* bytes: the failure is the message and the buffer still counts as changed
C18_Witness ==
    /\ AtMain /\ editorConfig.fileName = Ptr(MainFile)
    /\ Chars(editorConfig) = << <<"a", "a">> >>
    /\ editorConfig.unsavedChanges
    /\ editorConfig.statusMessage
           = [format |-> "Can't save! I/O error: %s", arg |-> <<"short">>]
    /\ disk[MainFile] = <<"a", "a", NUL>>

----------------------------------------------------------------------------
(* Claims on the copy buffer (SpecEdit) *)

\* from e with the cursor on row r (from 1), p has one row more, a new row
\* r with the raw bytes of e's row r, and the rows of e around it
PastedCopyOf(e, r, p) ==
    /\ p.run = "running"
    /\ p.numberOfRows = e.numberOfRows + 1
    /\ Chars(p) = SubSeq(Chars(e), 1, r - 1) \o <<e.editorRows[r].chars>>
                      \o SubSeq(Chars(e), r, e.numberOfRows)

\* C20: the copy buffer holds the one line yanked last, and a paste after a
\* yank inserts at the cursor row a new row with the bytes of the yanked
\* line, the row count growing by one, for every line, an empty one included.
C20_PasteInsertsYankedLine ==
    (AtMain /\ editorConfig.cursorCurrentY < editorConfig.numberOfRows) =>
        \A mallocZeroIsNull \in BOOLEAN :
            LET r == editorConfig.cursorCurrentY + 1
                y == editor_yank_line(editorConfig, mallocZeroIsNull)
            IN  /\ y.copyBuffer.buffer = Ptr(editorConfig.editorRows[r].chars)
                /\ y.copyBuffer.length = Len(editorConfig.editorRows[r].chars)
                /\ PastedCopyOf(editorConfig, r, editor_paste_line(y))

\* the same for the lines that hold at least one byte
PasteInsertsYankedBytes ==
    (/\ AtMain /\ editorConfig.cursorCurrentY < editorConfig.numberOfRows
     /\ editorConfig.editorRows[editorConfig.cursorCurrentY + 1].chars # <<>>) =>
        \A mallocZeroIsNull \in BOOLEAN :
            LET r == editorConfig.cursorCurrentY + 1
                y == editor_yank_line(editorConfig, mallocZeroIsNull)
            IN  /\ y.copyBuffer.buffer = Ptr(editorConfig.editorRows[r].chars)
                /\ y.copyBuffer.length = Len(editorConfig.editorRows[r].chars)
                /\ PastedCopyOf(editorConfig, r, editor_paste_line(y))

----------------------------------------------------------------------------
(* Claims on the prompts (SpecPrompt) *)

\* SpecPrompt: the editor started without a file or with x.c, and the three
\* prompts with up to MaxPrompt bytes typed into the search prompt and one
\* byte into the others
InitPrompt == InitWith(OpenFiles, ScreenRows, ScreenColumns, DEFAULT_TAB_STOP_SIZE)

NextPrompt ==
    \/ Startup({NULL, Ptr(MainFile)})
    \/ KeyFind
    \/ FindDelete
    \/ FindEscape
    \/ FindEnter
    \/ FindText(FindBytes, MaxPrompt)
    \/ FindOther(ArrowKeys)
    \/ KeyOpen
    \/ OpenDelete
    \/ OpenEscape
    \/ OpenEnter
    \/ OpenText(OpenBytes, 1)
    \/ OpenOther(ArrowKeys)
    \/ KeySave({"ok"})
    \/ SaveDelete
    \/ SaveEscape
    \/ SaveEnter({"ok"})
    \/ SaveText(NameBytes, 1)
    \/ SaveOther(ArrowKeys)

SpecPrompt == InitPrompt /\ [][NextPrompt]_vars

Prompts == {"find", "open", "save"}

\* the step is a key read by a prompt
PromptKey == pc \in Prompts /\ editorConfig.run = "running" /\ callbackKey' # NoKey

\* the statics of editor_find_callback are as the callback leaves them when
\* called with '\r' or '\x1b'
FindStaticsReset == lastMatch' = -1 /\ direction' = 1 /\ savedHighLight' = NULL

\* the step is Escape in a prompt: the prompt is left without a text, the
\* search and the open prompt with the cursor where it was on entering and
\* the save prompt without a file name and without a file written
Cancelled ==
    /\ pc' = "main" /\ buf' = <<>>
    /\ pc = "find" =>
          /\ FindStaticsReset
          /\ editorConfig'.cursorCurrentX = saved.cursorCurrentX
          /\ editorConfig'.cursorCurrentY = saved.cursorCurrentY
    /\ pc = "open" =>
          /\ BufferKept
          /\ editorConfig'.cursorCurrentX = saved.cursorCurrentX
          /\ editorConfig'.cursorCurrentY = saved.cursorCurrentY
    /\ pc = "save" =>
          /\ editorConfig'.fileName = NULL /\ disk' = disk
          /\ editorConfig'.statusMessage.format = "Save aborted"

\* the step is Enter in a prompt that takes the text buf: the search stays
\* at its match, the open prompt has opened the file buf or refused, and the
\* save prompt has saved under the name buf
Accepted ==
    /\ pc' = "main"
    /\ pc = "find" =>
          /\ FindStaticsReset
          /\ editorConfig'.cursorCurrentX = editorConfig.cursorCurrentX
          /\ editorConfig'.cursorCurrentY = editorConfig.cursorCurrentY
    /\ pc = "open" =>
          IF editorConfig.unsavedChanges THEN BufferKept
          ELSE IF buf \in DOMAIN disk THEN editorConfig'.fileName = Ptr(buf)
          ELSE editorConfig'.statusMessage.arg = buf
    /\ pc = "save" =>
          /\ editorConfig'.fileName = Ptr(buf)
          /\ buf \in DOMAIN disk'

\* C21 as stated: a prompt goes on with every other key and ends at the first
\* Enter or Escape; Escape cancels it and yields no text, after the callback
\* was called with Escape; Enter accepts the text typed so far, after the
\* callback was called with Enter.
C21_PromptEndsAtEnterOrEscape ==
    [][ PromptKey =>
          /\ callbackKey' = "ESC" => Cancelled
          /\ callbackKey' = "\r" => Accepted
          /\ callbackKey' \notin {"ESC", "\r"} => pc' = pc ]_vars

\* C21 amended: a prompt goes on with every other key, and with Enter while
\* no text is typed (the callback is still called with Enter: the search
\* statics are reset, and the open prompt empties a buffer without unsaved
\* changes); it ends at the first Escape, which cancels it as above, and at
\* the first Enter with text typed, which accepts the text as above.
C21_PromptEndsAtEnterWithText ==
    [][ PromptKey =>
          /\ callbackKey' = "ESC" => Cancelled
          /\ (callbackKey' = "\r" /\ buf # <<>>) => Accepted
          /\ (callbackKey' = "\r" /\ buf = <<>>) =>
                /\ pc' = pc /\ buf' = <<>>
                /\ pc = "find" => FindStaticsReset
                /\ (pc = "open" /\ ~editorConfig.unsavedChanges) =>
                      (editorConfig'.numberOfRows = 0 /\ editorConfig'.fileName = NULL)
                /\ pc = "save" =>
                      (disk' = disk /\ editorConfig'.fileName = NULL)
          /\ callbackKey' \notin {"ESC", "\r"} => pc' = pc ]_vars

\* the open prompt has been left by Enter with the name y typed, and the file
\* y is the buffer
C21_Witness ==
    /\ AtMain /\ callbackKey = "\r"
    /\ editorConfig.fileName = Ptr(OtherFile)
    /\ Chars(editorConfig) = << <<"b">>, <<"a">> >>

----------------------------------------------------------------------------
(* The configuration reader, config_reader.c *)

DEFAULT_STATUS_MESSAGE_DURATION == 5

\* $HOME/.yaterc
YateRc == <<".", "y", "a", "t", "e", "r", "c">>

LowerLetters ==
    <<"a", "b", "c", "d", "e", "f", "g", "h", "i", "j", "k", "l", "m",
      "n", "o", "p", "q", "r", "s", "t", "u", "v", "w", "x", "y", "z">>

UpperLetters ==
    <<"A", "B", "C", "D", "E", "F", "G", "H", "I", "J", "K", "L", "M",
      "N", "O", "P", "Q", "R", "S", "T", "U", "V", "W", "X", "Y", "Z">>

tolower(c) ==
    IF \E k \in 1..Len(UpperLetters) : UpperLetters[k] = c
    THEN LowerLetters[CHOOSE k \in 1..Len(UpperLetters) : UpperLetters[k] = c]
    ELSE c

\* strcasecmp(a, b) == 0
StrCaseCmpEq(a, b) ==
    /\ Len(a) = Len(b)
    /\ \A k \in 1..Len(a) : tolower(a[k]) = tolower(b[k])

\* the digits of s from j on, after the value acc of those before
RECURSIVE AtolDigits(_, _, _)
AtolDigits(s, j, acc) ==
    IF j <= Len(s) /\ isdigit(s[j])
    THEN AtolDigits(s, j + 1, acc * 10 + (CHOOSE d \in 0..9 : Decimal(d) = <<s[j]>>))
    ELSE acc

\* atol from j on: white space, then a sign, then digits up to the first
\* byte that is none
RECURSIVE AtolFrom(_, _)
AtolFrom(s, j) ==
    IF j <= Len(s) /\ isspace(s[j]) THEN AtolFrom(s, j + 1)
    ELSE IF j <= Len(s) /\ s[j] = "-" THEN 0 - AtolDigits(s, j + 1, 0)
    ELSE IF j <= Len(s) /\ s[j] = "+" THEN AtolDigits(s, j + 1, 0)
    ELSE AtolDigits(s, j, 0)

atol(s) == AtolFrom(s, 1)

\* configuration_reader_string_behead
configuration_reader_string_behead(str) == Tail(str)

\* the while loop of configuration_reader_string_trim
RECURSIVE BeheadSpaces(_)
BeheadSpaces(str) ==
    IF str # <<>> /\ isspace(str[1])
    THEN BeheadSpaces(configuration_reader_string_behead(str))
    ELSE str

\* the for loop of configuration_reader_string_trim from i (from 0) down
RECURSIVE TrimEnd(_, _)
TrimEnd(str, i) ==
    IF i > 0 /\ isspace(str[i + 1]) THEN TrimEnd(SubSeq(str, 1, i), i - 1) ELSE str

\* configuration_reader_string_trim: for a string that is empty after the
\* while loop, strlen(str) - 1 wraps and the for loop reads outside of it
configuration_reader_string_trim(str) ==
    LET beheaded == BeheadSpaces(str)
    IN  IF beheaded = <<>> THEN [str |-> <<>>, defined |-> FALSE]
        ELSE [str |-> TrimEnd(beheaded, Len(beheaded) - 1), defined |-> TRUE]

\* the byte at p (from 1) of the buffer holding the file s and a final '\0'
ByteAt(s, p) == IF p <= Len(s) THEN s[p] ELSE NUL

\* the while loop of configuration_reader_parse_configuration_file_line
RECURSIVE ScanLine(_, _, _, _, _)
ScanLine(s, p, parsingOption, optionRawLength, argumentRawLength) ==
    IF ByteAt(s, p) \in {"\n", NUL}
    THEN [p |-> p, optionRawLength |-> optionRawLength,
          argumentRawLength |-> argumentRawLength]
    ELSE IF s[p] = "=" THEN ScanLine(s, p + 1, FALSE, optionRawLength, argumentRawLength)
    ELSE IF parsingOption
         THEN ScanLine(s, p + 1, TRUE, optionRawLength + 1, argumentRawLength)
         ELSE ScanLine(s, p + 1, FALSE, optionRawLength, argumentRawLength + 1)

\* the value of an option with the argument text argument, from the value
\* old it had
OptionValue(old, argument) ==
    IF argument # <<>> /\ (isdigit(argument[1]) \/ argument[1] = "-")
    THEN atol(argument) ELSE old

\* "TAB_STOP_SIZE"
TabStopSizeKey == <<"T", "A", "B", "_", "S", "T", "O", "P", "_", "S", "I", "Z", "E">>

\* "STATUS_MESSAGE_DURATION"
StatusMessageDurationKey ==
    <<"S", "T", "A", "T", "U", "S", "_", "M", "E", "S", "S", "A", "G", "E",
      "_", "D", "U", "R", "A", "T", "I", "O", "N">>

\* the line scanned up to its end, with option and argument trimmed
LineParsed(result, scan, option, argument) ==
    IF ~option.defined \/ ~argument.defined
    THEN [ret |-> 0, p |-> scan.p, result |-> [result EXCEPT !.run = "undefined"]]
    ELSE [ret |-> 1, p |-> scan.p + 1,
          result |->
              IF StrCaseCmpEq(option.str, TabStopSizeKey)
              THEN [result EXCEPT !.tabStopSize = OptionValue(@, argument.str)]
              ELSE IF StrCaseCmpEq(option.str, StatusMessageDurationKey)
              THEN [result EXCEPT !.messageDisplayDuration = OptionValue(@, argument.str)]
              ELSE result]

\* the line scanned up to its end
LineScanned(s, result, scan) ==
    IF scan.optionRawLength = 0 \/ scan.argumentRawLength = 0
    THEN IF ByteAt(s, scan.p) = NUL THEN [ret |-> 0, p |-> scan.p, result |-> result]
         ELSE [ret |-> -1, p |-> scan.p + 1, result |-> result]
    ELSE LineParsed(result, scan,
             configuration_reader_string_trim(
                 SubSeq(s, scan.p - scan.optionRawLength - scan.argumentRawLength - 1,
                        scan.p - scan.argumentRawLength - 2)),
             configuration_reader_string_trim(
                 SubSeq(s, scan.p - scan.argumentRawLength, scan.p - 1)))

\* configuration_reader_parse_configuration_file_line, with the pointer at p:
\* behind the final '\0' it reads outside of the buffer
configuration_reader_parse_configuration_file_line(s, p, result) ==
    IF p > Len(s) + 1
    THEN [ret |-> 0, p |-> p, result |-> [result EXCEPT !.run = "undefined"]]
    ELSE IF ByteAt(s, p) = NUL THEN [ret |-> 0, p |-> p, result |-> result]
    ELSE LineScanned(s, result, ScanLine(s, p, TRUE, 0, 0))

\* while(configuration_reader_parse_configuration_file_line(&buffer, &result));
RECURSIVE ParseLines(_, _)
ParseLines(s, line) ==
    IF line.ret = 0 THEN line.result
    ELSE ParseLines(s, configuration_reader_parse_configuration_file_line(
                           s, line.p, line.result))

\* configuration_reader_read_configuration_file with the files of dsk
configuration_reader_read_configuration_file(dsk) ==
    LET result == [tabStopSize |-> DEFAULT_TAB_STOP_SIZE,
                   messageDisplayDuration |-> DEFAULT_STATUS_MESSAGE_DURATION,
                   run |-> "running"]
    IN  IF YateRc \notin DOMAIN dsk THEN result
        ELSE ParseLines(dsk[YateRc], [ret |-> 1, p |-> 1, result |-> result])


----------------------------------------------------------------------------
(* Claims on the configuration (SpecConfig) *)

\* SpecConfig: the editor is started on x.c after the reader has returned
\* from a .yaterc that is missing, empty, or one line with a key, with or
\* without a value and a line end; the keys that look at a file
ConfigKeys ==
    {TabStopSizeKey, StatusMessageDurationKey,
     <<"t", "a", "b", "_", "s", "t", "o", "p", "_", "s", "i", "z", "e">>}

ConfigValues ==
    {<<"8">>, <<"a", "b", "c">>, <<"8", "a", "b", "c">>, <<>>, <<"-">>, <<"-", "3">>,
     <<" ", "8">>, <<"8", " ">>, <<"0">>, <<"-", "1">>, <<"1">>}

LineEnds == {<<"\n">>, <<>>}

ConfigLine(key, value, end) == key \o <<"=">> \o value \o end

ConfigTexts ==
    {<<>>} \cup {key \o end : key \in ConfigKeys, end \in LineEnds}
           \cup {ConfigLine(key, value, end) :
                    key \in ConfigKeys, value \in ConfigValues, end \in LineEnds}

ConfigDisks ==
    {MainFile :> <<"a">>} \cup {(MainFile :> <<"a">>) @@ (YateRc :> text) : text \in ConfigTexts}

InitConfig ==
    \E files \in ConfigDisks :
        /\ configuration_reader_read_configuration_file(files).run = "running"
        /\ InitWith(files, ScreenRows, ScreenColumns,
                    configuration_reader_read_configuration_file(files).tabStopSize)

\* a tab typed, while the buffer holds fewer than MaxConfig bytes.  With a tab stop size of
\* 0 editor_update_row and editor_row_cx_to_rx compute a remainder modulo
\* zero; a negative value is stored in a size_t as a value near 2^64, the
\* size given to malloc wraps around and the loop that pads the tab writes
\* past the block
MaxConfig == 3

KeyTab(maxBytes) ==
    /\ AtMain
    /\ FlatLen(editorConfig) < maxBytes
    /\ BackToMain(IF editorConfig.tabStopSize <= 0 THEN Undefined(Cur)
                  ELSE editor_insert_character(Cur, "\t"), "\t")

NextConfig ==
    \/ NextView
    \/ KeyTab(MaxConfig)

SpecConfig == InitConfig /\ [][NextConfig]_vars

\* value is a decimal integer: digits, after a minus sign or without, with
\* white space around them or without
RECURSIVE AllDigits(_)
AllDigits(s) == s = <<>> \/ (isdigit(s[1]) /\ AllDigits(Tail(s)))

WellFormedInteger(value) ==
    LET text == configuration_reader_string_trim(value).str
        digits == IF text # <<>> /\ text[1] = "-" THEN Tail(text) ELSE text
    IN  digits # <<>> /\ AllDigits(digits)

\* the settings in force: the tab stop of the editor, and the duration the
\* reader has returned
InForce ==
    [tabStopSize |-> editorConfig.tabStopSize,
     messageDisplayDuration |->
         configuration_reader_read_configuration_file(disk).messageDisplayDuration]

Defaults ==
    [tabStopSize |-> DEFAULT_TAB_STOP_SIZE,
     messageDisplayDuration |-> DEFAULT_STATUS_MESSAGE_DURATION]

\* C22: with a .yaterc whose one line gives a key no value, or a value that
\* is no well-formed integer, and with no or an empty .yaterc, the defaults
\* are in force: tab stop size 4 and status message duration 5.
C22_MalformedValueKeepsDefault ==
    (pc # "start") =>
        /\ (YateRc \notin DOMAIN disk \/ disk[YateRc] = <<>>) => InForce = Defaults
        /\ \A key \in ConfigKeys, end \in LineEnds :
              /\ (YateRc \in DOMAIN disk /\ disk[YateRc] = key \o end) => InForce = Defaults
              /\ \A value \in ConfigValues :
                    (/\ YateRc \in DOMAIN disk
                     /\ disk[YateRc] = ConfigLine(key, value, end)
                     /\ ~WellFormedInteger(value)) => InForce = Defaults

\* the same for the values whose first byte is neither a digit nor a minus
\* sign
ValueWithoutDigitKeepsDefault ==
    (pc # "start") =>
        \A key \in ConfigKeys, end \in LineEnds, value \in ConfigValues :
            (/\ YateRc \in DOMAIN disk
             /\ disk[YateRc] = ConfigLine(key, value, end)
             /\ \A k \in 1..Len(value) : ~isdigit(value[k]) /\ value[k] # "-")
                => InForce = Defaults

\* a well-formed value is taken
WellFormedValueTaken ==
    (pc # "start") =>
        \A end \in LineEnds :
            (YateRc \in DOMAIN disk /\ disk[YateRc] = ConfigLine(TabStopSizeKey, <<"8">>, end))
                => InForce = [Defaults EXCEPT !.tabStopSize = 8]


----------------------------------------------------------------------------
(* Claims on the keys without a command (SpecKeys) *)

\* the byte 0x18, CTRL_KEY('x')
CtrlX == "^X"

\* the control keys with a case of their own in editor_process_keypress
BoundControlKeys ==
    {"\r", "CTRL_Q", "CTRL_S", "CTRL_F", "CTRL_H", "CTRL_D", "CTRL_Y", "CTRL_P", "CTRL_O",
     "CTRL_L", "ESC"}

\* control keys that reach the default case: ctrl-a and ctrl-x
UnboundControlKeys == {SOH, CtrlX} \ BoundControlKeys

\* SpecKeys: the editor started without a file; a letter and the control keys
\* without a command, Enter, the deleting keys and the arrows, up to MaxKeys
\* bytes
MaxKeys == 4

NextKeys ==
    \/ Startup({NULL})
    \/ KeyEnter(MaxKeys)
    \/ KeyDelete
    \/ KeyArrow
    \/ KeyEscape
    \/ KeyInsert({"a"} \cup UnboundControlKeys, MaxKeys)

SpecKeys == InitEdit /\ [][NextKeys]_vars

\* C23: no row holds a control byte, as only printable bytes are inserted by
\* typing; and pressing ctrl-x, or another control key without a command,
\* leaves the rows' bytes, the row count and the dirty flag as they are.
C23_UnboundKeysChangeNothing ==
    AtMain =>
        /\ \A k \in 1..editorConfig.numberOfRows :
              \A j \in 1..Len(editorConfig.editorRows[k].chars) :
                  editorConfig.editorRows[k].chars[j] \notin UnboundControlKeys
        /\ \A key \in UnboundControlKeys :
              LET e == MainTail(editor_insert_character(Cur, key), key)
              IN  /\ Chars(e) = Chars(editorConfig)
                  /\ e.numberOfRows = editorConfig.numberOfRows
                  /\ e.unsavedChanges = editorConfig.unsavedChanges


----------------------------------------------------------------------------
(* Claims on the rows' derived fields (Spec, SpecEdit) *)

\* C24: after any sequence of row insertions and deletions every row's
\* stored index is its position in the buffer, counted from 0.
C24_IndexIsPosition ==
    (pc # "start" /\ Running) =>
        /\ Len(editorConfig.editorRows) = editorConfig.numberOfRows
        /\ \A i \in 0..(editorConfig.numberOfRows - 1) :
              editorConfig.editorRows[i + 1].index = i

\* the first line of x.c has been deleted and pasted behind the second
C24_Witness ==
    /\ AtMain
    /\ Chars(editorConfig) = << <<"/">>, <<"/", "*">> >>
    /\ editorConfig.editorRows[2].index = 1


\* the column of the tab stop behind column n
NextTabStop(n, tabStopSize) == ((n \div tabStopSize) + 1) * tabStopSize

\* chars from j on behind the columns acc, every tab replaced by spaces up to
\* the next tab stop and every other byte copied
RECURSIVE TabsExpanded(_, _, _, _)
TabsExpanded(chars, j, acc, tabStopSize) ==
    IF j > Len(chars) THEN acc
    ELSE IF chars[j] = "\t"
         THEN TabsExpanded(chars, j + 1,
                  acc \o Array([k \in 1..(NextTabStop(Len(acc), tabStopSize) - Len(acc)) |-> " "]),
                  tabStopSize)
         ELSE TabsExpanded(chars, j + 1, Append(acc, chars[j]), tabStopSize)

\* C25: where the program waits for a key, each row's render is its raw
\* bytes with every tab replaced by spaces up to the next multiple of the
\* tab stop (at least one) and every other byte copied, its highlight array
\* is as long as the render, and that length is the render column of the
\* row's end.
C25_RenderFollowsRaw ==
    (pc # "start" /\ Running) =>
        \A k \in 1..editorConfig.numberOfRows :
            LET row == editorConfig.editorRows[k]
            IN  /\ row.render = TabsExpanded(row.chars, 1, <<>>, editorConfig.tabStopSize)
                /\ Len(row.highLight) = Len(row.render)
                /\ Len(row.render)
                       = editor_row_cx_to_rx(row.chars, Len(row.chars), editorConfig.tabStopSize)

\* a byte and two tabs have been typed: the render fills two tab stops
C25_Witness ==
    /\ AtMain /\ editorConfig.numberOfRows = 1
    /\ editorConfig.editorRows[1].chars = <<"a", "\t", "\t">>
    /\ Len(editorConfig.editorRows[1].render) = 2 * DEFAULT_TAB_STOP_SIZE
    /\ editorConfig.unsavedChanges


----------------------------------------------------------------------------
(* Claims on the columns of a row's bytes (Spec) *)

\* col clamped to 0..size
Clamped(col, size) == IF col > size THEN size ELSE IF col < 0 THEN 0 ELSE col

\* s with c inserted in front of its byte at (from 0)
WithByte(s, at, c) == SubSeq(s, 1, at) \o <<c>> \o SubSeq(s, at + 1, Len(s))

\* s without its byte at (from 0); s itself if it has no such byte
WithoutByte(s, at) == SubSeq(s, 1, at) \o SubSeq(s, at + 2, Len(s))

\* row p (from 0) of e holds chars and its render follows them, the other
\* rows hold what they hold in editorConfig, and the buffer counts as changed
RowActedOn(e, p, chars) ==
    /\ e.numberOfRows = editorConfig.numberOfRows
    /\ Chars(e) = [Chars(editorConfig) EXCEPT ![p + 1] = chars]
    /\ e.editorRows[p + 1].render = TabsExpanded(chars, 1, <<>>, e.tabStopSize)
    /\ Len(e.editorRows[p + 1].highLight) = Len(e.editorRows[p + 1].render)
    /\ e.unsavedChanges

\* the columns tried: those of the row, its end, and two behind it
ColumnsOf(row) == 0..(Len(row.chars) + 2)

\* C26 as stated: for every column, also behind the row's end, insert_char
\* inserts the byte at the column clamped to 0..size and delete_char removes
\* the byte at the clamped column, and both mark the buffer dirty and render
\* the row again.
C26_BothClampAndAct ==
    AtMain =>
        \A p \in 0..(editorConfig.numberOfRows - 1) :
            LET row == editorConfig.editorRows[p + 1]
            IN  \A col \in ColumnsOf(row) :
                    LET at == Clamped(col, Len(row.chars))
                    IN  /\ \A c \in TypedBytes :
                              RowActedOn(editor_row_insert_character(editorConfig, p, col, c),
                                         p, WithByte(row.chars, at, c))
                        /\ RowActedOn(editor_row_delete_character(editorConfig, p, col),
                                      p, WithoutByte(row.chars, at))

\* C26 amended: insert_char inserts the byte at the column clamped to
\* 0..size, marks the buffer dirty and renders the row again; delete_char
\* with a column inside the row removes the byte there, marks the buffer
\* dirty and renders the row again, and with a column at or behind the row's
\* end it does nothing: rows, renders and dirty flag stay as they are.
C26_InsertClampsDeleteIgnores ==
    AtMain =>
        \A p \in 0..(editorConfig.numberOfRows - 1) :
            LET row == editorConfig.editorRows[p + 1]
            IN  \A col \in ColumnsOf(row) :
                    /\ \A c \in TypedBytes :
                          RowActedOn(editor_row_insert_character(editorConfig, p, col, c),
                                     p, WithByte(row.chars, Clamped(col, Len(row.chars)), c))
                    /\ col < Len(row.chars) =>
                          RowActedOn(editor_row_delete_character(editorConfig, p, col),
                                     p, WithoutByte(row.chars, col))
                    /\ col >= Len(row.chars) =>
                          editor_row_delete_character(editorConfig, p, col) = editorConfig

\* the first line of x.c was deleted with the cursor at its end: the cursor
\* column 2, which the next insert or delete is called with, lies behind the
\* end of the one-byte line now under the cursor
C26_Witness ==
    /\ AtMain /\ editorConfig.numberOfRows = 1
    /\ editorConfig.editorRows[1].chars = <<"/">>
    /\ editorConfig.cursorCurrentY = 0 /\ editorConfig.cursorCurrentX = 2
    /\ editorConfig.copyBuffer.buffer = Ptr(<<"/", "*">>)


----------------------------------------------------------------------------
(* Claims on deleting a row (SpecEdit) *)

\* from editorConfig, e is running and has the same rows, row count, dirty
\* flag and copy buffer
NothingTouched(e) ==
    /\ e.run = "running"
    /\ e.numberOfRows = editorConfig.numberOfRows
    /\ RowContents(e) = RowContents(editorConfig)
    /\ e.unsavedChanges = editorConfig.unsavedChanges
    /\ e.copyBuffer = editorConfig.copyBuffer

\* C27: deleting a row at an index at or behind the row count touches
\* nothing, and so does the delete-line key pressed with the cursor on the
\* line past the last row (in an empty buffer too): rows, row count, dirty
\* flag and copy buffer stay as they are and no row at an index at or behind
\* the row count is read.
C27_DeletePastEndIsNoOp ==
    AtMain =>
        /\ \A at \in editorConfig.numberOfRows..(editorConfig.numberOfRows + 2) :
              NothingTouched(editor_delete_row(editorConfig, at))
        /\ editorConfig.cursorCurrentY >= editorConfig.numberOfRows =>
              \A mallocZeroIsNull \in BOOLEAN :
                  NothingTouched(DeleteLineEnd(editor_yank_line(editorConfig, mallocZeroIsNull)))

\* editor_delete_row alone, called with an index at or behind the row count
DeleteRowPastEndIsNoOp ==
    AtMain =>
        \A at \in editorConfig.numberOfRows..(editorConfig.numberOfRows + 2) :
            editor_delete_row(editorConfig, at) = editorConfig


----------------------------------------------------------------------------
(* Drawing the rows, editor_draw_rows *)

\* iscntrl(c) for the bytes of the model
iscntrl(c) == c \in {NUL, SOH, CtrlX, "\t", "\n", "\r", "\f"}

\* what is shown for the byte c: for a control byte, '@' + c up to 26
DrawnByte(c) ==
    CASE c = NUL -> "@"
      [] c = SOH -> "A"
      [] c = CtrlX -> "X"
      [] c = "\t" -> "I"
      [] c = "\n" -> "J"
      [] c = "\f" -> "L"
      [] c = "\r" -> "M"
      [] OTHER -> c

\* uint32_t length = renderSize - columnOffset, cut to screenColumns:
\* `length < 0` is never true of a uint32_t, and a difference below zero
\* wraps to 2^32 less its amount, which is above every screenColumns
DrawnLength(e, filerow) ==
    LET difference == Len(e.editorRows[filerow + 1].render) - e.columnOffset
    IN  IF difference < 0 \/ difference > e.screenColumns
        THEN e.screenColumns
        ELSE difference

\* the else branch of editor_draw_rows for the row filerow: the bytes shown
\* (the colour sequences between them left out); reading render behind its
\* final '\0', or highLight behind its last byte, is undefined
DrawnRow(e, filerow) ==
    LET render == e.editorRows[filerow + 1].render
        length == DrawnLength(e, filerow)
    IN  IF length > 0 /\ e.columnOffset + length > Len(render)
        THEN [text |-> <<>>, run |-> "undefined"]
        ELSE [text |-> Array([j \in 1..length |-> DrawnByte(render[e.columnOffset + j])]),
              run |-> "running"]

\* the rows of the file that editor_draw_rows draws
VisibleRows(e) ==
    {filerow \in e.rowOffset..(e.rowOffset + e.screenRows - 1) : filerow < e.numberOfRows}

----------------------------------------------------------------------------
(* Claims on drawing (SpecScroll) *)

Min(a, b) == IF a < b THEN a ELSE b

\* C28: for each visible row exactly the rendered bytes at the indexes from
\* columnOffset up to the smaller of the render's length and columnOffset +
\* screenColumns are shown, none when columnOffset is at or behind the
\* render's length, and no index at or behind the render's length is read.
C28_RowsAreWindowed ==
    (pc # "start" /\ Running) =>
        \A filerow \in VisibleRows(editorConfig) :
            LET render == editorConfig.editorRows[filerow + 1].render
                drawn == DrawnRow(editorConfig, filerow)
            IN  /\ drawn.run = "running"
                /\ drawn.text = SubSeq(render, editorConfig.columnOffset + 1,
                                       Min(Len(render),
                                           editorConfig.columnOffset
                                               + editorConfig.screenColumns))

\* the same for the rows that reach up to the column offset
LongRowsAreWindowed ==
    (pc # "start" /\ Running) =>
        \A filerow \in VisibleRows(editorConfig) :
            LET render == editorConfig.editorRows[filerow + 1].render
                drawn == DrawnRow(editorConfig, filerow)
            IN  Len(render) >= editorConfig.columnOffset =>
                    /\ drawn.run = "running"
                    /\ drawn.text = SubSeq(render, editorConfig.columnOffset + 1,
                                           Min(Len(render),
                                               editorConfig.columnOffset
                                                   + editorConfig.screenColumns))


----------------------------------------------------------------------------
(* Claims on the scan of one row (SpecWord) *)

\* SpecWord: x.c holds one line of up to MaxWord of these parts: two words
\* of the C table (`if` and `int|`), a letter, a digit, a space, a dot, a
\* quote, and the markers that start a comment
MaxWord == 3

WordParts ==
    {<<"i", "f">>, <<"i", "n", "t">>, <<"x">>, <<"1">>, <<" ">>, <<".">>, <<"\"">>,
     <<"/", "/">>, <<"/", "*">>}

RECURSIVE WordLines(_)
WordLines(n) ==
    IF n = 0 THEN {<<>>}
    ELSE WordLines(n - 1) \cup {line \o part : line \in WordLines(n - 1), part \in WordParts}

InitWord ==
    \E line \in WordLines(MaxWord) :
        InitWith(MainFile :> line, ScreenRows, ScreenColumns, DEFAULT_TAB_STOP_SIZE)

SpecWord == InitWord /\ [][NextView]_vars

\* the pass through the loop body from the loop variables st
StepOf(render, syn, st) ==
    ScanStep(render, syn, st.i, st.hl, st.previousSeperator, st.insideString,
             st.insideComment)

\* the values of the loop variables at each entry of the loop body
RECURSIVE ScanVisits(_, _, _)
ScanVisits(render, syn, st) ==
    IF st.stopped \/ st.i >= Len(render) THEN {}
    ELSE {st} \cup ScanVisits(render, syn, StepOf(render, syn, st))

\* the loop variables at the start of the scan of a row, as in ScanRow
ScanStart(render, incoming) ==
    ScanState(0, Array([k \in 1..Len(render) |-> HIGHTLIGHT_NORMAL]), TRUE, FALSE, incoming,
              FALSE)

KeywordGroups ==
    {HIGHLIGHT_KEYWORDS_FIRST_GROUP, HIGHLIGHT_KEYWORDS_SECOND_GROUP,
     HIGHLIGHT_KEYWORDS_THIRD_GROUP, HIGHLIGHT_KEYWORDS_FOURTH_GROUP}

\* the one row of the file is loaded
WordLoaded == pc # "start" /\ Running /\ editorConfig.numberOfRows = 1

\* the table entry kw is matched by the pass from st to next, as C29 says
MatchedAsClaimed(render, highLight, kw, st, next) ==
    LET last == kw[Len(kw)]
        n == IF last \in {"|", "&", "~"} THEN Len(kw) - 1 ELSE Len(kw)
        group == CASE last = "|" -> HIGHLIGHT_KEYWORDS_SECOND_GROUP
                   [] last = "&" -> HIGHLIGHT_KEYWORDS_THIRD_GROUP
                   [] last = "~" -> HIGHLIGHT_KEYWORDS_FOURTH_GROUP
                   [] OTHER -> HIGHLIGHT_KEYWORDS_FIRST_GROUP
    IN  /\ st.i + n <= Len(render)
        /\ SubSeq(render, st.i + 1, st.i + n) = SubSeq(kw, 1, n)
        /\ st.i + n = Len(render) \/ editor_is_separator(render[st.i + n + 1])
        /\ \A k \in (st.i + 1)..(st.i + n) : next.hl[k] = group /\ highLight[k] = group
        /\ next.i = st.i + n
        /\ ~next.stopped

\* C29: a pass through the loop body classifies a keyword only when it was
\* entered with previousSeperator set and a table entry is at the offset with
\* a separator or the end of the row behind it; the whole word then has
\* group 2, 3 or 4 for an entry ending in `|`, `&` or `~` and group 1 for
\* one without, and the scan goes on behind the word.
C29_KeywordMatch ==
    WordLoaded =>
        LET row == editorConfig.editorRows[1]
            syn == Rule(editorConfig)
        IN  \A st \in ScanVisits(row.render, syn, ScanStart(row.render, FALSE)) :
                LET next == StepOf(row.render, syn, st)
                IN  next.hl[st.i + 1] \in KeywordGroups =>
                        /\ st.previousSeperator
                        /\ \E j \in 1..Len(syn.keywords) :
                               MatchedAsClaimed(row.render, row.highLight, syn.keywords[j],
                                                st, next)

\* the row ` if.` with `if` in the first group, and nothing else classified
C29_Witness ==
    /\ WordLoaded
    /\ editorConfig.editorRows[1].render = <<" ", "i", "f", ".">>
    /\ editorConfig.editorRows[1].highLight
           = <<HIGHTLIGHT_NORMAL, HIGHLIGHT_KEYWORDS_FIRST_GROUP,
               HIGHLIGHT_KEYWORDS_FIRST_GROUP, HIGHTLIGHT_NORMAL>>

\* a word of the table is left normal behind a byte that is no separator, in
\* front of one, and behind a number that ends in a dot
WordsLeftNormal ==
    WordLoaded =>
        LET row == editorConfig.editorRows[1]
        IN  row.render \in {<<"x", "i", "f">>, <<"i", "f", "x">>, <<"1", ".", "i", "f">>}
                => \A k \in 1..Len(row.render) : row.highLight[k] \notin KeywordGroups


\* the single line comment marker of the rule is at offset i of render
MarkerAt(render, syn, i) ==
    /\ Len(syn.singleline_comment_start) > 0
    /\ i + Len(syn.singleline_comment_start) <= Len(render)
    /\ SubSeq(render, i + 1, i + Len(syn.singleline_comment_start))
           = syn.singleline_comment_start

\* C30: a pass through the loop body that finds the single line comment
\* marker at its offset while inside neither a string nor a block comment
\* classifies the bytes from there to the end of the row as line comment and
\* ends the scan, the row's open comment flag staying unset whatever
\* follows the marker; a pass that finds it inside a string or a block
\* comment does not classify it as line comment and the scan goes on.
C30_LineCommentEndsScan ==
    WordLoaded =>
        LET row == editorConfig.editorRows[1]
            syn == Rule(editorConfig)
        IN  \A st \in ScanVisits(row.render, syn, ScanStart(row.render, FALSE)) :
                LET next == StepOf(row.render, syn, st)
                IN  MarkerAt(row.render, syn, st.i) =>
                        IF ~st.insideString /\ ~st.insideComment
                        THEN /\ next.stopped
                             /\ \A k \in (st.i + 1)..Len(row.render) :
                                    /\ next.hl[k] = HIGHLIGHT_COMMENT
                                    /\ row.highLight[k] = HIGHLIGHT_COMMENT
                             /\ ~row.hightLightOpenComment
                        ELSE /\ ~next.stopped
                             /\ next.hl[st.i + 1] \in {HIGHLIGHT_STRING, HIGHLIGHT_MLCOMMENT}
                             /\ row.highLight[st.i + 1] = next.hl[st.i + 1]

\* the row `x///*`: line comment from the marker on, no comment left open
C30_Witness ==
    /\ WordLoaded
    /\ editorConfig.editorRows[1].render = <<"x", "/", "/", "/", "*">>
    /\ editorConfig.editorRows[1].highLight
           = <<HIGHTLIGHT_NORMAL, HIGHLIGHT_COMMENT, HIGHLIGHT_COMMENT, HIGHLIGHT_COMMENT,
               HIGHLIGHT_COMMENT>>
    /\ ~editorConfig.editorRows[1].hightLightOpenComment

\* the rows `/*//` and `"//`: the marker is block comment in the first, which
\* leaves a comment open, and string in the second
MarkerIgnored ==
    WordLoaded =>
        LET row == editorConfig.editorRows[1]
        IN  /\ row.render = <<"/", "*", "/", "/">> =>
                /\ row.highLight = Array([k \in 1..4 |-> HIGHLIGHT_MLCOMMENT])
                /\ row.hightLightOpenComment
            /\ row.render = <<"\"", "/", "/">> =>
                row.highLight = Array([k \in 1..3 |-> HIGHLIGHT_STRING])


\* the classes given by the comment and string branches, which come before
\* the number branch in the loop body
CommentOrString == {HIGHLIGHT_COMMENT, HIGHLIGHT_MLCOMMENT, HIGHLIGHT_STRING}

\* byte k (from 1) of the row is, by its own value and the byte in front of
\* it, one that C31 says is a number
NumberAsClaimed(render, highLight, k) ==
    \/ /\ isdigit(render[k])
       /\ \/ k = 1
          \/ editor_is_separator(render[k - 1])
          \/ highLight[k - 1] = HIGHLIGHT_NUMBER
    \/ /\ render[k] = "."
       /\ k > 1
       /\ highLight[k - 1] = HIGHLIGHT_NUMBER

DigitBehindLetterIsNormal ==
    WordLoaded =>
        LET row == editorConfig.editorRows[1]
        IN  /\ row.render = <<"x", "1">> => row.highLight[2] = HIGHTLIGHT_NORMAL
            /\ row.render = <<"1", "1">> => row.highLight[2] = HIGHLIGHT_NUMBER
            /\ row.render = <<" ", "1">> => row.highLight[2] = HIGHLIGHT_NUMBER


----------------------------------------------------------------------------
(* Claims on the end of a cascade (Spec) *)

\* the re-highlight of row p (from 0) after the byte c was put at column at
\* of it, as editor_row_insert_character starts it
CascadeAfterInsert(e, p, at, c) ==
    editor_update_row([e.editorRows EXCEPT ![p + 1].chars = WithByte(@, at, c)],
                      e.numberOfRows, e.syntax, p, e.tabStopSize)

\* the trace of one call of editor_update_syntax for row p of n rows: every
\* further entry is a row behind the one before it, and there are no more
\* entries than rows from p on
CascadeBounded(trace, p, n) ==
    /\ Len(trace) >= 1
    /\ trace[1].at = p
    /\ \A k \in 2..Len(trace) : trace[k].at > trace[k - 1].at
    /\ Len(trace) <= n - p

\* every pass through the loop body of the scan of row p goes on at a later
\* offset, or ends the scan
ScanAdvances(e, p) ==
    LET render == e.editorRows[p + 1].render
    IN  \A st \in ScanVisits(render, Rule(e),
                             ScanStart(render, p > 0 /\ e.editorRows[p].hightLightOpenComment)) :
            StepOf(render, Rule(e), st).i > st.i

\* C32: every pass of a row's scan advances by at least one byte, and the
\* cascade that a change of row p starts re-highlights rows of strictly
\* growing index, at most numberOfRows - p of them.
C32_CascadeEnds ==
    (AtMain /\ editorConfig.syntax # NULL) =>
        \A p \in 0..(editorConfig.numberOfRows - 1) :
            /\ ScanAdvances(editorConfig, p)
            /\ \A c \in TypedBytes, at \in 0..Len(editorConfig.editorRows[p + 1].chars) :
                   CascadeBounded(CascadeAfterInsert(editorConfig, p, at, c).trace, p,
                                  editorConfig.numberOfRows)

\* three rows `*`, an empty one and `/`, none in a comment: a `/` in front
\* of the first row opens a comment and all three rows are highlighted again
C32_Witness ==
    /\ AtMain
    /\ editorConfig.syntax # NULL
    /\ Chars(editorConfig) = << <<"*">>, <<>>, <<"/">> >>
    /\ \A k \in 1..3 : ~editorConfig.editorRows[k].hightLightOpenComment
    /\ Len(CascadeAfterInsert(editorConfig, 0, 0, "/").trace) = 3


----------------------------------------------------------------------------
(* Allocation failure: malloc or realloc returning NULL *)

\* append_buffer_append_string(buffer, str, length); new is what realloc
\* returned, NULL or a block.  The buffer is the sequence of the strings
\* appended.
append_buffer_append_string(buffer, str, length, new) ==
    IF new = NULL THEN buffer
    ELSE [buffer |-> buffer.buffer \o <<str>>, length |-> buffer.length + length]

\* APPENDBUFFER_INIT
APPENDBUFFER_INIT == [buffer |-> <<>>, length |-> 0]

\* the calls of append_buffer_append_string that editor_draw_rows makes for
\* the screen row y, as pairs of string and length: the bytes of the row one
\* by one (the colour sequences between them left out), or a tilde, or the
\* row of the welcome screen (taken as one string), then the two sequences
\* that end a line
RowAppends(e, y) ==
    LET filerow == y + e.rowOffset
        text == IF filerow < e.numberOfRows
                THEN Array([j \in 1..Len(DrawnRow(e, filerow).text) |->
                               <<DrawnRow(e, filerow).text[j], 1>>])
                ELSE IF /\ e.numberOfRows = 0
                        /\ y >= e.screenRows \div 3
                        /\ y <= (e.screenRows \div 3) + 7
                     THEN << <<"welcome", 0>> >>
                     ELSE << <<"~", 1>> >>
    IN  text \o << <<"ESC[K", 3>>, <<"\r\n", 2>> >>

\* the calls that editor_draw_rows makes, for the screen rows from y on
RECURSIVE DrawAppends(_, _)
DrawAppends(e, y) ==
    IF y >= e.screenRows THEN <<>> ELSE RowAppends(e, y) \o DrawAppends(e, y + 1)

\* the buffer after the calls from the k-th on, the calls whose number is in
\* failing getting NULL from realloc
RECURSIVE Appended(_, _, _, _)
Appended(buffer, appends, k, failing) ==
    IF k > Len(appends) THEN buffer
    ELSE Appended(append_buffer_append_string(buffer, appends[k][1], appends[k][2],
                                              IF k \in failing THEN NULL ELSE Ptr(k)),
                  appends, k + 1, failing)

\* editor_draw_rows with realloc failing in the calls whose number is in
\* failing: the buffer it leaves, and the editor, which no call changes
editor_draw_rows(e, failing) ==
    [buffer |-> Appended(APPENDBUFFER_INIT, DrawAppends(e, 0), 1, failing), e |-> e]

\* copy_buffer_write when malloc returns NULL for a length above 0 as well:
\* the function returns and the buffer keeps what it held
YankOutOfMemory(e) ==
    IF e.cursorCurrentY >= e.numberOfRows THEN Undefined(e) ELSE e

\* editor_insert_row when realloc or malloc returns NULL: the result is not
\* tested, and memmove or memcpy writes through the null pointer
InsertRowOutOfMemory(e, at) ==
    IF at < 0 \/ at > e.numberOfRows THEN e ELSE Undefined(e)

\* SpecAlloc: no file; bytes typed, Enter, the arrows, yank and paste, with
\* an allocator that can fail in yank and in the insertion of a row
MaxAlloc == 4

\* CTRL_KEY('y') with malloc returning NULL
KeyYankOutOfMemory ==
    /\ AtMain
    /\ BackToMain(YankOutOfMemory(Cur), "CTRL_Y")

\* '\r' at the start of a row (editor_insert_newline calls editor_insert_row
\* first) with realloc returning NULL
KeyEnterOutOfMemory ==
    /\ AtMain
    /\ editorConfig.cursorCurrentX = 0
    /\ BackToMain(InsertRowOutOfMemory(Cur, Cur.cursorCurrentY), "\r")

NextAlloc ==
    \/ Startup({NULL})
    \/ KeyEnter(MaxAlloc)
    \/ KeyArrow
    \/ KeyYank
    \/ KeyPaste(MaxAlloc)
    \/ KeyInsert({"a"}, MaxAlloc)
    \/ KeyYankOutOfMemory
    \/ KeyEnterOutOfMemory

SpecAlloc == InitEdit /\ [][NextAlloc]_vars

\* C33: when an allocation made while editing, yanking or composing the
\* frame fails, the process ends: after a yank without memory, an inserted
\* row without memory, or a frame with one append without memory, the
\* editor has exited.
C33_AllocationFailureIsFatal ==
    AtMain =>
        /\ YankOutOfMemory(editorConfig).run = "exited"
        /\ InsertRowOutOfMemory(editorConfig, editorConfig.cursorCurrentY).run = "exited"
        /\ \A k \in 1..Len(DrawAppends(editorConfig, 0)) :
               editor_draw_rows(editorConfig, {k}).e.run = "exited"

\* what happens: a yank without memory on a row leaves the clipboard and the
\* editor as they are, and a frame with the k-th append without memory is
\* the frame without that string, the editor running on
FailureGoesUnnoticed ==
    AtMain =>
        /\ editorConfig.cursorCurrentY < editorConfig.numberOfRows =>
               YankOutOfMemory(editorConfig) = editorConfig
        /\ InsertRowOutOfMemory(editorConfig, editorConfig.cursorCurrentY).run = "undefined"
        /\ LET appends == DrawAppends(editorConfig, 0)
               whole == editor_draw_rows(editorConfig, {})
           IN  \A k \in 1..Len(appends) :
                   LET drawn == editor_draw_rows(editorConfig, {k})
                   IN  /\ drawn.e = editorConfig
                       /\ drawn.buffer.length = whole.buffer.length - appends[k][2]
                       /\ drawn.buffer.buffer
                              = SubSeq(whole.buffer.buffer, 1, k - 1)
                                    \o SubSeq(whole.buffer.buffer, k + 1, Len(appends))


----------------------------------------------------------------------------
(* Claims on the cursor (SpecEdit) *)

\* C34: after every keypress the cursor is on a valid position: cursorCurrentY
\* is at most numberOfRows, cursorCurrentX at most the size of the row at
\* cursorCurrentY, and 0 on the line past the last row.
C34_CursorValid ==
    AtMain =>
        /\ editorConfig.cursorCurrentY <= editorConfig.numberOfRows
        /\ editorConfig.cursorCurrentX <= RowLen(editorConfig)
        /\ editorConfig.cursorCurrentY = editorConfig.numberOfRows
               => editorConfig.cursorCurrentX = 0

\* the line of the cursor is always a row or the line past the last row
CursorLineValid ==
    AtMain => editorConfig.cursorCurrentY <= editorConfig.numberOfRows


\* the editor after Enter and then Backspace
EnterThenBackspace(e) == DeleteEnd(editor_insert_newline(e))

\* the rows' bytes, their number and the cursor of after are those of before
BufferAndCursorSame(before, after) ==
    /\ after.run = "running"
    /\ after.numberOfRows = before.numberOfRows
    /\ Chars(after) = Chars(before)
    /\ after.cursorCurrentX = before.cursorCurrentX
    /\ after.cursorCurrentY = before.cursorCurrentY

\* C35: from every state, Enter and then Backspace leave the number of rows,
\* every row's bytes and the cursor as they were before Enter, also on the
\* line past the last row and in an empty buffer.
C35_EnterBackspaceRestores ==
    AtMain => BufferAndCursorSame(editorConfig, EnterThenBackspace(editorConfig))

\* the same from the states with the cursor on a row, at a column of it
EnterBackspaceRestoresOnRow ==
    (AtMain /\ editorConfig.cursorCurrentY < editorConfig.numberOfRows
            /\ editorConfig.cursorCurrentX <= RowLen(editorConfig))
        => BufferAndCursorSame(editorConfig, EnterThenBackspace(editorConfig))

\* on the line past the last row Enter adds an empty row, and Backspace
\* leaves it and the cursor below it
EnterPastEndStays ==
    (AtMain /\ editorConfig.cursorCurrentY = editorConfig.numberOfRows
            /\ editorConfig.cursorCurrentX = 0)
        => LET after == EnterThenBackspace(editorConfig)
           IN  /\ after.numberOfRows = editorConfig.numberOfRows + 1
               /\ Chars(after) = Append(Chars(editorConfig), <<>>)
               /\ after.cursorCurrentY = editorConfig.numberOfRows + 1


----------------------------------------------------------------------------
(* Claims on saving and loading again (SpecRound) *)

\* SpecRound: no file; the keys that edit, with the letter a and Ctrl-J, the
\* byte '\n', typed
MaxRound == 4

CtrlJ == "\n"

NextRound ==
    \/ Startup({NULL})
    \/ KeyEnter(MaxRound)
    \/ KeyDelete
    \/ KeyArrow
    \/ KeyInsert({"a", CtrlJ}, MaxRound)

SpecRound == InitEdit /\ [][NextRound]_vars

\* the editor after the bytes that a save of e writes have been loaded from
\* the file they were written to
SavedAndLoaded(e) ==
    editor_open(editor_initialize(e), MainFile, MainFile :> editor_rows_to_string(e))

\* C36: loading the bytes that save writes gives the same number of rows
\* with the same bytes, for every buffer that keys can produce.
C36_SaveLoadIdentity ==
    AtMain =>
        /\ SavedAndLoaded(editorConfig).numberOfRows = editorConfig.numberOfRows
        /\ Chars(SavedAndLoaded(editorConfig)) = Chars(editorConfig)

\* the same for the buffers without a line end byte in a row
SaveLoadIdentityWithoutLineEnds ==
    (AtMain /\ \A k \in 1..editorConfig.numberOfRows :
                   \A j \in 1..Len(editorConfig.editorRows[k].chars) :
                       editorConfig.editorRows[k].chars[j] \notin {"\n", "\r"})
        => /\ SavedAndLoaded(editorConfig).numberOfRows = editorConfig.numberOfRows
           /\ Chars(SavedAndLoaded(editorConfig)) = Chars(editorConfig)


----------------------------------------------------------------------------
(* Claims on the rules of the other languages (SpecRules) *)

\* SpecRules: x.lua, x.cpp and x.c hold the same two rows, each of them a
\* Lua block comment marker (alone, behind a letter or behind a quote), a
\* letter, or one of the words `public` and `int`; one of the files is opened
LuaFile == <<"x", ".", "l", "u", "a">>

CppFile == <<"x", ".", "c", "p", "p">>

RuleRows ==
    {<<"-", "-", "[", "[">>, <<"-", "-", "]", "]">>, <<"a">>,
     <<"a", " ", "-", "-", "[", "[">>, <<"\"", "-", "-", "[", "[">>,
     <<"p", "u", "b", "l", "i", "c">>, <<"i", "n", "t">>}

InitRules ==
    \E first \in RuleRows, second \in RuleRows :
        LET bytes == first \o <<"\n">> \o second \o <<"\n">>
        IN  InitWith((LuaFile :> bytes) @@ (CppFile :> bytes) @@ (MainFile :> bytes),
                     ScreenRows, ScreenColumns, DEFAULT_TAB_STOP_SIZE)

NextRules ==
    \/ Startup({Ptr(LuaFile), Ptr(CppFile), Ptr(MainFile)})
    \/ KeyHomeEnd
    \/ KeyArrow
    \/ KeyPage
    \/ KeyHelp
    \/ KeyEscape

SpecRules == InitRules /\ [][NextRules]_vars

\* a file is loaded under the rule named filetype
LoadedUnder(filetype) ==
    /\ pc # "start"
    /\ Running
    /\ editorConfig.syntax # NULL
    /\ Rule(editorConfig).filetype = filetype

\* the marker is somewhere in the row
HasMarker(render, marker) == \E q \in 0..Len(render) : StrNCmpEq(render, q, marker)

\* the row holds the block comment start marker with no quote in front of it
\* and no end marker behind it
OpensBlockComment(render, syn) ==
    \E q \in 0..Len(render) :
        /\ StrNCmpEq(render, q, syn.multiline_comment_start)
        /\ \A j \in 1..q : render[j] \notin {"\"", "'"}
        /\ \A r \in (q + Len(syn.multiline_comment_start))..Len(render) :
               ~StrNCmpEq(render, r, syn.multiline_comment_end)

\* C37: under the Lua rule a row that holds `--[[` outside a string, no
\* `--]]` behind it, and that the scan enters outside a comment, ends with
\* its open comment flag set, and the rows behind it up to the first one
\* that holds `--]]` are block comment throughout.
C37_LuaBlockComment ==
    LoadedUnder("Lua") =>
        LET e == editorConfig
            syn == Rule(editorConfig)
        IN  \A k \in 1..e.numberOfRows :
                (/\ OpensBlockComment(e.editorRows[k].render, syn)
                 /\ \A j \in 1..(k - 1) :
                        ~HasMarker(e.editorRows[j].render, syn.multiline_comment_start))
                    => /\ e.editorRows[k].hightLightOpenComment
                       /\ \A m \in (k + 1)..e.numberOfRows :
                              (\A j \in (k + 1)..m :
                                   ~HasMarker(e.editorRows[j].render,
                                              syn.multiline_comment_end))
                                  => \A b \in 1..Len(e.editorRows[m].render) :
                                         e.editorRows[m].highLight[b] = HIGHLIGHT_MLCOMMENT

\* under the Lua rule no row ever leaves a comment open and no byte is block
\* comment: where `--[[` could start one, `--` starts a line comment first
LuaNeverOpensComment ==
    LoadedUnder("Lua") =>
        \A k \in 1..editorConfig.numberOfRows :
            /\ ~editorConfig.editorRows[k].hightLightOpenComment
            /\ \A b \in 1..Len(editorConfig.editorRows[k].render) :
                   editorConfig.editorRows[k].highLight[b] # HIGHLIGHT_MLCOMMENT
            /\ editorConfig.editorRows[k].render = <<"-", "-", "[", "[">>
                   => editorConfig.editorRows[k].highLight
                          = Array([b \in 1..4 |-> HIGHLIGHT_COMMENT])

\* the string literals between the braces of CPPKeywords as they are written,
\* `"public"` and `"int|"` being two of them
CPPKeywordsWritten ==
    SubSeq(CPPKeywords, 1, 16)
        \o << <<"p", "u", "b", "l", "i", "c">>, <<"i", "n", "t", "|">> >>
        \o SubSeq(CPPKeywords, 18, Len(CPPKeywords))

\* the highlight of a row that holds the word of the table entry kw alone
WordAlone(kw, syn) == ScanRow(SubSeq(kw, 1, KeywordLength(kw)), syn, FALSE).hl

\* all bytes of the row are of the class group
AllOfGroup(highLight, group) == \A b \in 1..Len(highLight) : highLight[b] = group

\* C38: under the C++ rule every keyword written in the C++ table is
\* recognised; a row `public` is keyword group 1 and a row `int` keyword
\* group 2, as `int` is under the C rule.
C38_CppKeywordsRecognised ==
    /\ LoadedUnder("C++") =>
           /\ \A j \in 1..Len(CPPKeywordsWritten) :
                  AllOfGroup(WordAlone(CPPKeywordsWritten[j], Rule(editorConfig)),
                             KeywordGroup(CPPKeywordsWritten[j]))
           /\ \A k \in 1..editorConfig.numberOfRows :
                  /\ editorConfig.editorRows[k].render = <<"p", "u", "b", "l", "i", "c">>
                         => AllOfGroup(editorConfig.editorRows[k].highLight,
                                       HIGHLIGHT_KEYWORDS_FIRST_GROUP)
                  /\ editorConfig.editorRows[k].render = <<"i", "n", "t">>
                         => AllOfGroup(editorConfig.editorRows[k].highLight,
                                       HIGHLIGHT_KEYWORDS_SECOND_GROUP)
    /\ LoadedUnder("C") =>
           \A k \in 1..editorConfig.numberOfRows :
               editorConfig.editorRows[k].render = <<"i", "n", "t">>
                   => AllOfGroup(editorConfig.editorRows[k].highLight,
                                 HIGHLIGHT_KEYWORDS_SECOND_GROUP)

\* what the table gives: under the C++ rule the rows `public` and `int` are
\* normal, every other written keyword is recognised, and under the C rule
\* `int` is keyword group 2
CppPublicAndIntAreNormal ==
    /\ LoadedUnder("C++") =>
           /\ \A j \in (1..Len(CPPKeywordsWritten)) \ {17, 18} :
                  AllOfGroup(WordAlone(CPPKeywordsWritten[j], Rule(editorConfig)),
                             KeywordGroup(CPPKeywordsWritten[j]))
           /\ \A k \in 1..editorConfig.numberOfRows :
                  editorConfig.editorRows[k].render
                          \in {<<"p", "u", "b", "l", "i", "c">>, <<"i", "n", "t">>}
                      => AllOfGroup(editorConfig.editorRows[k].highLight, HIGHTLIGHT_NORMAL)
    /\ LoadedUnder("C") =>
           \A k \in 1..editorConfig.numberOfRows :
               editorConfig.editorRows[k].render = <<"i", "n", "t">>
                   => AllOfGroup(editorConfig.editorRows[k].highLight,
                                 HIGHLIGHT_KEYWORDS_SECOND_GROUP)


----------------------------------------------------------------------------
(* Claims on the clipboard across files (SpecOpen) *)

\* the step changes the bytes or the length of the clipboard
ClipboardChanges == editorConfig'.copyBuffer # editorConfig.copyBuffer

\* the step is a key of the main loop that leaves in the clipboard what a
\* yank of the line under the cursor writes, or the editor has exited
YankOrExit ==
    /\ AtMain
    /\ \/ \E mallocZeroIsNull \in BOOLEAN :
              editorConfig'.copyBuffer
                  = editor_yank_line(editorConfig, mallocZeroIsNull).copyBuffer
       \/ editorConfig'.run = "exited"

\* C39: the clipboard changes only in a yank (or delete-line) and when the
\* editor shuts down; every other step, the opening of another file through
\* the open prompt among them, leaves its bytes and length as they are.
C39_ClipboardOnlyYankChanges ==
    [][ClipboardChanges => YankOrExit]_vars

\* apart from a yank, only Enter in the open prompt without unsaved changes
\* changes the clipboard, and it empties it
ClipboardEmptiedByOpen ==
    [][(ClipboardChanges /\ ~YankOrExit)
          => /\ pc = "open" /\ callbackKey' = "\r"
             /\ ~editorConfig.unsavedChanges
             /\ editorConfig'.copyBuffer = copy_buffer_init]_vars


----------------------------------------------------------------------------
(* Claims on the tab stop size that the editor uses (SpecConfig) *)

\* C40: whatever ~/.yaterc holds, the tab stop size that the editor uses is
\* at least 1 (a 0 or a negative value of the file does not get there), so
\* that no tab is expanded, and no column mapped, with a remainder modulo
\* zero.
C40_TabStopAtLeastOne ==
    /\ editorConfig.tabStopSize >= 1
    /\ editorConfig.run # "undefined"

\* a file without a TAB_STOP_SIZE line that starts with a digit or a minus
\* sign other than a positive number leaves a tab stop size of at least 1
TabStopFromFile ==
    \/ YateRc \notin DOMAIN disk
    \/ editorConfig.tabStopSize >= 1
    \/ \E end \in LineEnds, value \in {<<"0">>, <<"-">>, <<"-", "1">>, <<"-", "3">>},
          key \in ConfigKeys \ {StatusMessageDurationKey} :
           disk[YateRc] = ConfigLine(key, value, end)

\* the editor leaves the defined behaviour only by a tab typed with a tab
\* stop size below 1
UndefinedOnlyBelowOne ==
    editorConfig.run = "undefined" => editorConfig.tabStopSize <= 0

====
